---- MODULE Spec2Model ----
(***************************************************************************)
(* ReadmeForge: the technology registry, the configuration repository,     *)
(* the detector pipeline of ProjectAnalyzer.analyze and the feature scan.  *)
(*                                                                         *)
(* A Python dict is modelled as a sequence of buckets (insertion order is  *)
(* the dict's iteration order); a technology entry is a record             *)
(* [name, importance].                                                     *)
(***************************************************************************)
EXTENDS Integers, Sequences, FiniteSets, TLC

VARIABLES
    result,         \* the table `result` / `tech_data`: <<[cat, items]>>
    before,         \* history: the tables before each upsert of the registry run
    maxSeen,        \* history: (category, name) -> largest importance passed
    lastCall,       \* history: arguments of the last upsert, or NoCall
    pc,             \* where analyze() is
    fs,             \* the project directory: the set of things found in it
    config_file,    \* the configuration file on disk
    config_cache,   \* ConfigRepository._config_cache
    raised,         \* the exception that left analyze(), "" when none
    technologies,   \* Project.technologies
    architecture_description,   \* Project.metadata["architecture_description"]
    run,            \* 1 during the first analyze() of the project, then 2
    first,          \* history: what the first analyze() returned
    project_name,   \* basename of the project path, cut at its separators
    source_files,   \* _detect_project_features: the sampled source files
    project_dirs,   \* _detect_project_features: the lower-cased listing
    feature_counters,   \* _detect_project_features: feature type -> counter
    features,       \* _detect_project_features: the list it returns
    fpc,            \* where _detect_project_features is
    next_file,      \* position of the scan in source_files
    lastScan,       \* history: the file scanned last and what it added
    call,           \* the function applied on its own, and whether it is done
    arg,            \* what that function is given (what is left of it)
    ret             \* what that function has built or returned

regVars == <<result, before, maxSeen, lastCall>>

runVars ==
    <<pc, fs, config_file, config_cache, raised, technologies,
      architecture_description, run, first>>

featVars ==
    <<project_name, source_files, project_dirs, feature_counters, features,
      fpc, next_file, lastScan>>

callVars == <<call, arg, ret>>

vars ==
    <<result, before, maxSeen, lastCall, pc, fs, config_file, config_cache,
      raised, technologies, architecture_description, run, first,
      project_name, source_files, project_dirs, feature_counters, features,
      fpc, next_file, lastScan, call, arg, ret>>

NoFunction == [fn |-> "", done |-> FALSE]

\* no function is applied on its own
CallIdle ==
    /\ call = NoFunction
    /\ arg = <<>>
    /\ ret = <<>>

NoScan == [file |-> "", read |-> FALSE, content |-> <<>>, delta |-> <<>>]

\* _detect_project_features has not been called
FeaturesIdle ==
    /\ project_name = <<>>
    /\ source_files = <<>>
    /\ project_dirs = <<>>
    /\ feature_counters = <<>>
    /\ features = <<>>
    /\ fpc = "idle"
    /\ next_file = 1
    /\ lastScan = NoScan

----------------------------------------------------------------------------
(* Bounds of the model. *)

MaxCalls == 3

----------------------------------------------------------------------------
(* The technology table.                                                   *)

\* technology_analyzer.py:39-49, the dict literal, in its key order
Categories ==
    <<"language", "framework", "database", "frontend", "backend",
      "devops", "testing", "architecture", "other">>

Range(s) == {s[i] : i \in 1..Len(s)}

\* A slip of the dict literal: the last key is left out.
EmptyResultWithoutOther ==
    [i \in 1..(Len(Categories) - 1) |->
        [cat |-> Categories[i], items |-> <<>>]]

EmptyResult ==
    [i \in 1..Len(Categories) |-> [cat |-> Categories[i], items |-> <<>>]]

HasKey(tbl, category) ==
    \E i \in 1..Len(tbl) : tbl[i].cat = category

KeyIndex(tbl, category) ==
    CHOOSE i \in 1..Len(tbl) : tbl[i].cat = category

\* tbl.get(category, [])
Items(tbl, category) ==
    IF HasKey(tbl, category) THEN tbl[KeyIndex(tbl, category)].items ELSE <<>>

\* if category not in result: result[category] = []
SetDefault(tbl, category) ==
    IF HasKey(tbl, category) THEN tbl
    ELSE Append(tbl, [cat |-> category, items |-> <<>>])

\* index of the first entry whose name is `name` (compared exactly), or 0
FirstNamed(items, name) ==
    IF \E j \in 1..Len(items) : items[j].name = name
    THEN CHOOSE j \in 1..Len(items) :
            /\ items[j].name = name
            /\ \A k \in 1..(j - 1) : items[k].name # name
    ELSE 0

\* A slip of the merge: the stored importance is overwritten by the new one.
add_technology_overwrite(tbl, category, name, importance) ==
    LET t == SetDefault(tbl, category)
        k == KeyIndex(t, category)
        j == FirstNamed(t[k].items, name)
    IN  IF j # 0
        THEN [t EXCEPT ![k].items[j].importance = importance]
        ELSE [t EXCEPT ![k].items =
                Append(@, [name |-> name, importance |-> importance])]

\* A slip of the merge: the entry is appended without looking for the name.
add_technology_always(tbl, category, name, importance) ==
    LET t == SetDefault(tbl, category)
        k == KeyIndex(t, category)
    IN  [t EXCEPT ![k].items =
            Append(@, [name |-> name, importance |-> importance])]

\* TechnologyAnalyzer._add_technology_if_not_exists
_add_technology_if_not_exists(tbl, category, name, importance) ==
    LET t == SetDefault(tbl, category)
        k == KeyIndex(t, category)
        j == FirstNamed(t[k].items, name)
    IN  IF j # 0
        THEN IF t[k].items[j].importance < importance
             THEN [t EXCEPT ![k].items[j].importance = importance]
             ELSE t
        ELSE [t EXCEPT ![k].items =
                Append(@, [name |-> name, importance |-> importance])]

----------------------------------------------------------------------------
(* The registry on its own: any sequence of upserts on one fresh table.    *)

NoCall == [category |-> "", name |-> "", importance |-> 0]

\* Python's None
None == [none |-> TRUE]

NoDescription == [kind |-> "none", parts |-> <<>>, modules |-> <<>>]

NoProject == [technologies |-> <<>>, architecture_description |-> NoDescription]

RegCategories == {"language", "backend"}
RegNames == {"Python", "Express.js"}
Importances == 1..5
RegPairs == RegCategories \X RegNames

Max(a, b) == IF a >= b THEN a ELSE b

RegInit ==
    /\ result = EmptyResult
    /\ before = <<>>
    /\ maxSeen = [p \in RegPairs |-> 0]
    /\ lastCall = NoCall
    /\ pc = "idle"
    /\ fs = {}
    /\ config_file = [status |-> "absent"]
    /\ config_cache = None
    /\ raised = ""
    /\ technologies = <<>>
    /\ architecture_description = NoDescription
    /\ run = 1
    /\ first = NoProject
    /\ FeaturesIdle
    /\ CallIdle

\* one call upsert(category, name, importance); `before` keeps every table
\* the call sequence went through, the last one being the table before
\* this call
Upsert(category, name, importance) ==
    /\ Len(before) < MaxCalls
    /\ result' = _add_technology_if_not_exists(result, category, name, importance)
    /\ before' = Append(before, result)
    /\ maxSeen' = [maxSeen EXCEPT ![<<category, name>>] = Max(@, importance)]
    /\ lastCall' = [category |-> category, name |-> name,
                    importance |-> importance]
    /\ UNCHANGED <<runVars, featVars, callVars>>

RegNext ==
    \E c \in RegCategories, n \in RegNames, i \in Importances : Upsert(c, n, i)

SpecRegistry == RegInit /\ [][RegNext]_vars

CountNamed(items, name) ==
    Cardinality({j \in 1..Len(items) : items[j].name = name})

\* C1: after every upsert(category, name, importance) the pair has exactly
\* one entry, whose importance is the largest importance passed for the
\* pair so far, and every other entry of the table is what it was before
\* the call (same bucket, same position, same value; nothing else added).
C1_UpsertMaxMerge ==
    lastCall # NoCall =>
        LET c == lastCall.category
            n == lastCall.name
            prev == before[Len(before)]
            items == Items(result, c)
        IN  /\ CountNamed(items, n) = 1
            /\ items[FirstNamed(items, n)].importance = maxSeen[<<c, n>>]
            /\ items[FirstNamed(items, n)].importance >= lastCall.importance
            /\ Len(result) = Len(prev)
            /\ \A k \in 1..Len(prev) :
                /\ result[k].cat = prev[k].cat
                /\ \A j \in 1..Len(prev[k].items) :
                    (prev[k].cat # c \/ prev[k].items[j].name # n)
                        => result[k].items[j] = prev[k].items[j]
                /\ Len(result[k].items) =
                     Len(prev[k].items) +
                       (IF prev[k].cat = c /\ CountNamed(prev[k].items, n) = 0
                        THEN 1 ELSE 0)

\* C1 witness: an upsert with a smaller importance than one passed earlier
\* for the same pair has run, next to an entry of another pair.
C1_Witness ==
    /\ lastCall # NoCall
    /\ lastCall.importance < maxSeen[<<lastCall.category, lastCall.name>>]
    /\ Len(Items(result, lastCall.category)) = 2

----------------------------------------------------------------------------
(* The configuration repository.                                           *)
(*                                                                         *)
(* The configuration is a dict of dicts; a table of it (extension ->       *)
(* language, marker -> technology) is the sequence of its items, in the    *)
(* file's order.  A key "a.b" is the sequence <<"a", "b">> of its parts,   *)
(* as key.split(".") gives them.                                           *)

file_extensions ==
    << [key |-> "py", value |-> "Python"],
       [key |-> "js", value |-> "JavaScript"],
       [key |-> "ts", value |-> "TypeScript"] >>

project_files ==
    << [key |-> "Dockerfile", value |-> "Docker"],
       [key |-> "*.gradle", value |-> "Gradle"] >>

package_files ==
    << [key |-> "package.json", value |-> "npm"] >>

\* a configuration with every table the analyzers ask for
FullConfig ==
    [k \in {"analyzers"} |->
        [t \in {"file_extensions", "package_files", "project_files"} |->
            CASE t = "file_extensions" -> file_extensions
              [] t = "package_files" -> package_files
              [] OTHER -> project_files]]

\* a configuration with the two tables of the interface only
MinimalConfig ==
    [k \in {"analyzers"} |->
        [t \in {"file_extensions", "project_files"} |->
            IF t = "file_extensions" THEN file_extensions ELSE project_files]]

\* a configuration without the marker table
NoProjectFilesConfig ==
    [k \in {"analyzers"} |->
        [t \in {"file_extensions", "package_files"} |->
            IF t = "file_extensions" THEN file_extensions ELSE package_files]]

\* a configuration without the "analyzers" section
NoAnalyzersConfig ==
    [k \in {"sections"} |-> [t \in {"order"} |-> <<>>]]

ConfigFiles ==
    { [status |-> "absent"], [status |-> "invalid"] } \cup
    { [status |-> "valid", content |-> c] :
        c \in {FullConfig, MinimalConfig, NoProjectFilesConfig,
               NoAnalyzersConfig} }

\* ConfigRepository._load_config: the exception it raises ("" for none) and
\* the cache it leaves
_load_config(file, cache) ==
    IF file.status = "absent"
    THEN [exc |-> "FileNotFoundError", cache |-> cache]
    ELSE IF file.status = "invalid"
         THEN [exc |-> "JSONDecodeError", cache |-> cache]
         ELSE [exc |-> "", cache |-> file.content]

\* the loop over the parts of a dotted key
RECURSIVE LookupParts(_, _)
LookupParts(value, parts) ==
    IF parts = <<>> THEN [exc |-> "", value |-> value]
    ELSE IF Head(parts) \in DOMAIN value
         THEN LookupParts(value[Head(parts)], Tail(parts))
         ELSE [exc |-> "KeyError", value |-> None]

\* a get_config that loads the file and forgets it
get_config_uncached(file, cache, key) ==
    LET loaded == _load_config(file, None)
    IN  [exc |-> loaded.exc,
         value |-> IF loaded.exc = "" THEN loaded.cache ELSE None,
         cache |-> None]

\* ConfigRepository.get_config(key): the exception raised ("" for none),
\* the value returned and the cache left
get_config(file, cache, key) ==
    LET loaded == IF cache = None THEN _load_config(file, cache)
                  ELSE [exc |-> "", cache |-> cache]
    IN  IF loaded.exc # ""
        THEN [exc |-> loaded.exc, value |-> None, cache |-> loaded.cache]
        ELSE IF key = <<>>
        THEN [exc |-> "", value |-> loaded.cache, cache |-> loaded.cache]
        ELSE IF Len(key) > 1
        THEN LET r == LookupParts(loaded.cache, key)
             IN  [exc |-> r.exc, value |-> r.value, cache |-> loaded.cache]
        ELSE IF key[1] \in DOMAIN loaded.cache
        THEN [exc |-> "", value |-> loaded.cache[key[1]],
              cache |-> loaded.cache]
        ELSE [exc |-> "KeyError", value |-> None, cache |-> loaded.cache]

\* table[key], table being the sequence of a dict's items
TableHas(table, key) == \E i \in 1..Len(table) : table[i].key = key

TableGet(table, key) ==
    table[CHOOSE i \in 1..Len(table) : table[i].key = key].value

----------------------------------------------------------------------------
(* The project directory.                                                  *)
(*                                                                         *)
(* A project is a set of at most MaxEvidence things out of a catalogue:    *)
(* a file with the content written beside it, or a directory.  "name!" is  *)
(* the file `name` present but not readable as UTF-8 text (read_file       *)
(* raises PermissionError or UnicodeDecodeError); for package.json it is   *)
(* a file that is not JSON.                                                *)

MaxEvidence == 3

Evidence ==
    { "app.py",                 \* from flask import Flask
      "server.js",              \* const express = require('express')
      "index.ts",               \* import React from 'react'
      "setup.py",               \* from setuptools import setup
      "requirements.txt",       \* flask==2.0.1
      "requirements.txt!",
      "package.json:express",   \* {"name":"demo","dependencies":{"express":"^4.0"}}
      "package.json:react",     \* ... "dependencies":{"react":"^18.0"}
      "package.json!",
      "build.gradle",           \* plugins { id 'java' }
      "build.gradle!",
      "CMakeLists.txt",         \* project(demo CXX)
      "CMakeLists.txt!",
      "Dockerfile",
      "routes/",
      "express/" }

RECURSIVE SubsetsUpTo(_, _)
SubsetsUpTo(S, n) ==
    IF n = 0 THEN {{}}
    ELSE LET smaller == SubsetsUpTo(S, n - 1)
         IN  smaller \cup {s \cup {e} : s \in smaller, e \in S}

Projects == SubsetsUpTo(Evidence, MaxEvidence)

\* the root's files in the order os.walk lists them, each with the catalogue
\* entries that put it there
RootFiles ==
    << [name |-> "app.py", ext |-> "py", by |-> {"app.py"}],
       [name |-> "server.js", ext |-> "js", by |-> {"server.js"}],
       [name |-> "index.ts", ext |-> "ts", by |-> {"index.ts"}],
       [name |-> "setup.py", ext |-> "py", by |-> {"setup.py"}],
       [name |-> "requirements.txt", ext |-> "txt",
        by |-> {"requirements.txt", "requirements.txt!"}],
       [name |-> "package.json", ext |-> "json",
        by |-> {"package.json:express", "package.json:react", "package.json!"}],
       [name |-> "build.gradle", ext |-> "gradle",
        by |-> {"build.gradle", "build.gradle!"}],
       [name |-> "CMakeLists.txt", ext |-> "txt",
        by |-> {"CMakeLists.txt", "CMakeLists.txt!"}],
       [name |-> "Dockerfile", ext |-> "", by |-> {"Dockerfile"}] >>

\* FileRepository.file_exists(os.path.join(project_path, name))
file_exists(project, name) ==
    \E i \in 1..Len(RootFiles) :
        RootFiles[i].name = name /\ RootFiles[i].by \cap project # {}

\* whether FileRepository.read_file returns the file's text
Readable(project, name) ==
    /\ file_exists(project, name)
    /\ (CASE name = "requirements.txt" -> "requirements.txt!"
          [] name = "package.json" -> "package.json!"
          [] name = "build.gradle" -> "build.gradle!"
          [] name = "CMakeLists.txt" -> "CMakeLists.txt!"
          [] OTHER -> "") \notin project

\* os.path.isdir(os.path.join(project_path, name))
isdir(project, name) ==
    CASE name = "routes" -> "routes/" \in project
      [] name = "express" -> "express/" \in project
      [] OTHER -> FALSE

\* the root's directories in the order os.walk lists them
RootDirs(project) ==
    SelectSeq(<<"routes", "express">>, LAMBDA d : isdir(project, d))

\* the files os.walk meets, in its order
WalkFiles(project) ==
    SelectSeq(RootFiles, LAMBDA f : f.by \cap project # {})

----------------------------------------------------------------------------
(* Texts.                                                                  *)
(*                                                                         *)
(* A text is a sequence of one-character strings, so that `x in text` is   *)
(* the substring search of Python and lower() works on letters.  Chars     *)
(* spells the strings the analyzers meet.                                  *)

Chars1 ==
    ("flask" :> <<"f", "l", "a", "s", "k">>) @@
    ("django" :> <<"d", "j", "a", "n", "g", "o">>) @@
    ("express" :> <<"e", "x", "p", "r", "e", "s", "s">>) @@
    ("fastapi" :> <<"f", "a", "s", "t", "a", "p", "i">>) @@
    ("router" :> <<"r", "o", "u", "t", "e", "r">>) @@
    ("route" :> <<"r", "o", "u", "t", "e">>) @@
    ("templates" :> <<"t", "e", "m", "p", "l", "a", "t", "e", "s">>) @@
    ("views" :> <<"v", "i", "e", "w", "s">>) @@
    ("controllers" :> <<"c", "o", "n", "t", "r", "o", "l", "l", "e", "r", "s">>) @@
    ("app.get" :> <<"a", "p", "p", ".", "g", "e", "t">>) @@
    ("app.post" :> <<"a", "p", "p", ".", "p", "o", "s", "t">>) @@
    ("render" :> <<"r", "e", "n", "d", "e", "r">>) @@
    ("request" :> <<"r", "e", "q", "u", "e", "s", "t">>) @@
    ("response" :> <<"r", "e", "s", "p", "o", "n", "s", "e">>) @@
    ("api" :> <<"a", "p", "i">>) @@
    ("rest" :> <<"r", "e", "s", "t">>) @@
    ("graphql" :> <<"g", "r", "a", "p", "h", "q", "l">>) @@
    ("endpoint" :> <<"e", "n", "d", "p", "o", "i", "n", "t">>) @@
    ("controller" :> <<"c", "o", "n", "t", "r", "o", "l", "l", "e", "r">>) @@
    ("restful" :> <<"r", "e", "s", "t", "f", "u", "l">>) @@
    ("@app.route" :> <<"@", "a", "p", "p", ".", "r", "o", "u", "t", "e">>) @@
    ("@api" :> <<"@", "a", "p", "i">>) @@
    ("apicontroller" :> <<"a", "p", "i", "c", "o", "n", "t", "r", "o", "l", "l", "e", "r">>) @@
    ("cli" :> <<"c", "l", "i">>) @@
    ("command" :> <<"c", "o", "m", "m", "a", "n", "d">>) @@
    ("argparse" :> <<"a", "r", "g", "p", "a", "r", "s", "e">>) @@
    ("click" :> <<"c", "l", "i", "c", "k">>) @@
    ("commander" :> <<"c", "o", "m", "m", "a", "n", "d", "e", "r">>) @@
    ("yargs" :> <<"y", "a", "r", "g", "s">>) @@
    ("parser" :> <<"p", "a", "r", "s", "e", "r">>)

Chars2 ==
    ("flag" :> <<"f", "l", "a", "g">>) @@
    ("argument" :> <<"a", "r", "g", "u", "m", "e", "n", "t">>) @@
    ("option" :> <<"o", "p", "t", "i", "o", "n">>) @@
    ("argv" :> <<"a", "r", "g", "v">>) @@
    ("database" :> <<"d", "a", "t", "a", "b", "a", "s", "e">>) @@
    ("db" :> <<"d", "b">>) @@
    ("mongo" :> <<"m", "o", "n", "g", "o">>) @@
    ("sql" :> <<"s", "q", "l">>) @@
    ("postgresql" :> <<"p", "o", "s", "t", "g", "r", "e", "s", "q", "l">>) @@
    ("mysql" :> <<"m", "y", "s", "q", "l">>) @@
    ("sqlite" :> <<"s", "q", "l", "i", "t", "e">>) @@
    ("orm" :> <<"o", "r", "m">>) @@
    ("query" :> <<"q", "u", "e", "r", "y">>) @@
    ("model" :> <<"m", "o", "d", "e", "l">>) @@
    ("entity" :> <<"e", "n", "t", "i", "t", "y">>) @@
    ("repository" :> <<"r", "e", "p", "o", "s", "i", "t", "o", "r", "y">>) @@
    ("dao" :> <<"d", "a", "o">>) @@
    ("train" :> <<"t", "r", "a", "i", "n">>) @@
    ("predict" :> <<"p", "r", "e", "d", "i", "c", "t">>) @@
    ("machine learning" :> <<"m", "a", "c", "h", "i", "n", "e", " ", "l", "e", "a", "r", "n", "i", "n", "g">>) @@
    ("tensorflow" :> <<"t", "e", "n", "s", "o", "r", "f", "l", "o", "w">>) @@
    ("pytorch" :> <<"p", "y", "t", "o", "r", "c", "h">>) @@
    ("keras" :> <<"k", "e", "r", "a", "s">>) @@
    ("sklearn" :> <<"s", "k", "l", "e", "a", "r", "n">>) @@
    ("ml" :> <<"m", "l">>) @@
    ("ai" :> <<"a", "i">>) @@
    ("neural" :> <<"n", "e", "u", "r", "a", "l">>) @@
    ("scrape" :> <<"s", "c", "r", "a", "p", "e">>) @@
    ("crawler" :> <<"c", "r", "a", "w", "l", "e", "r">>) @@
    ("spider" :> <<"s", "p", "i", "d", "e", "r">>)

Chars3 ==
    ("beautifulsoup" :> <<"b", "e", "a", "u", "t", "i", "f", "u", "l", "s", "o", "u", "p">>) @@
    ("selenium" :> <<"s", "e", "l", "e", "n", "i", "u", "m">>) @@
    ("requests" :> <<"r", "e", "q", "u", "e", "s", "t", "s">>) @@
    ("http" :> <<"h", "t", "t", "p">>) @@
    ("html" :> <<"h", "t", "m", "l">>) @@
    ("parse" :> <<"p", "a", "r", "s", "e">>) @@
    ("extract" :> <<"e", "x", "t", "r", "a", "c", "t">>) @@
    ("test" :> <<"t", "e", "s", "t">>) @@
    ("spec" :> <<"s", "p", "e", "c">>) @@
    ("assert" :> <<"a", "s", "s", "e", "r", "t">>) @@
    ("expect" :> <<"e", "x", "p", "e", "c", "t">>) @@
    ("should" :> <<"s", "h", "o", "u", "l", "d">>) @@
    ("mock" :> <<"m", "o", "c", "k">>) @@
    ("stub" :> <<"s", "t", "u", "b">>) @@
    ("fixture" :> <<"f", "i", "x", "t", "u", "r", "e">>) @@
    ("auth" :> <<"a", "u", "t", "h">>) @@
    ("login" :> <<"l", "o", "g", "i", "n">>) @@
    ("register" :> <<"r", "e", "g", "i", "s", "t", "e", "r">>) @@
    ("password" :> <<"p", "a", "s", "s", "w", "o", "r", "d">>) @@
    ("user" :> <<"u", "s", "e", "r">>) @@
    ("token" :> <<"t", "o", "k", "e", "n">>) @@
    ("jwt" :> <<"j", "w", "t">>) @@
    ("oauth" :> <<"o", "a", "u", "t", "h">>) @@
    ("credential" :> <<"c", "r", "e", "d", "e", "n", "t", "i", "a", "l">>) @@
    ("permission" :> <<"p", "e", "r", "m", "i", "s", "s", "i", "o", "n">>) @@
    ("file" :> <<"f", "i", "l", "e">>) @@
    ("read" :> <<"r", "e", "a", "d">>) @@
    ("write" :> <<"w", "r", "i", "t", "e">>) @@
    ("open" :> <<"o", "p", "e", "n">>) @@
    ("save" :> <<"s", "a", "v", "e">>)

Chars4 ==
    ("load" :> <<"l", "o", "a", "d">>) @@
    ("import" :> <<"i", "m", "p", "o", "r", "t">>) @@
    ("export" :> <<"e", "x", "p", "o", "r", "t">>) @@
    ("csv" :> <<"c", "s", "v">>) @@
    ("excel" :> <<"e", "x", "c", "e", "l">>) @@
    ("json" :> <<"j", "s", "o", "n">>) @@
    ("yaml" :> <<"y", "a", "m", "l">>) @@
    ("xml" :> <<"x", "m", "l">>) @@
    ("async" :> <<"a", "s", "y", "n", "c">>) @@
    ("await" :> <<"a", "w", "a", "i", "t">>) @@
    ("promise" :> <<"p", "r", "o", "m", "i", "s", "e">>) @@
    ("coroutine" :> <<"c", "o", "r", "o", "u", "t", "i", "n", "e">>) @@
    ("future" :> <<"f", "u", "t", "u", "r", "e">>) @@
    ("deferred" :> <<"d", "e", "f", "e", "r", "r", "e", "d">>) @@
    ("callback" :> <<"c", "a", "l", "l", "b", "a", "c", "k">>) @@
    ("worker" :> <<"w", "o", "r", "k", "e", "r">>) @@
    ("vue.js" :> <<"v", "u", "e", ".", "j", "s">>) @@
    ("react" :> <<"r", "e", "a", "c", "t">>) @@
    ("angular" :> <<"a", "n", "g", "u", "l", "a", "r">>) @@
    ("rest framework" :> <<"r", "e", "s", "t", " ", "f", "r", "a", "m", "e", "w", "o", "r", "k">>) @@
    ("cobra" :> <<"c", "o", "b", "r", "a">>) @@
    ("postgres" :> <<"p", "o", "s", "t", "g", "r", "e", "s">>) @@
    ("pandas" :> <<"p", "a", "n", "d", "a", "s">>) @@
    ("numpy" :> <<"n", "u", "m", "p", "y">>) @@
    ("scrapy" :> <<"s", "c", "r", "a", "p", "y">>) @@
    ("puppeteer" :> <<"p", "u", "p", "p", "e", "t", "e", "e", "r">>) @@
    ("pytest" :> <<"p", "y", "t", "e", "s", "t">>) @@
    ("jest" :> <<"j", "e", "s", "t">>) @@
    ("mocha" :> <<"m", "o", "c", "h", "a">>) @@
    ("junit" :> <<"j", "u", "n", "i", "t">>)

Chars5 ==
    ("phpunit" :> <<"p", "h", "p", "u", "n", "i", "t">>) @@
    ("passport" :> <<"p", "a", "s", "s", "p", "o", "r", "t">>) @@
    ("auth0" :> <<"a", "u", "t", "h", "0">>) @@
    ("authlib" :> <<"a", "u", "t", "h", "l", "i", "b">>) @@
    ("download" :> <<"d", "o", "w", "n", "l", "o", "a", "d">>) @@
    ("downloader" :> <<"d", "o", "w", "n", "l", "o", "a", "d", "e", "r">>) @@
    ("youtube" :> <<"y", "o", "u", "t", "u", "b", "e">>) @@
    ("app.py" :> <<"a", "p", "p", ".", "p", "y">>) @@
    ("server.js" :> <<"s", "e", "r", "v", "e", "r", ".", "j", "s">>) @@
    ("Express" :> <<"E", "x", "p", "r", "e", "s", "s">>) @@
    ("index.ts" :> <<"i", "n", "d", "e", "x", ".", "t", "s">>) @@
    ("core.py" :> <<"c", "o", "r", "e", ".", "p", "y">>) @@
    ("test_app.py" :> <<"t", "e", "s", "t", "_", "a", "p", "p", ".", "p", "y">>) @@
    ("bundle.js" :> <<"b", "u", "n", "d", "l", "e", ".", "j", "s">>) @@
    ("legacy.py" :> <<"l", "e", "g", "a", "c", "y", ".", "p", "y">>) @@
    ("README.md" :> <<"R", "E", "A", "D", "M", "E", ".", "m", "d">>) @@
    ("routes" :> <<"r", "o", "u", "t", "e", "s">>) @@
    ("tests" :> <<"t", "e", "s", "t", "s">>) @@
    ("Flask" :> <<"F", "l", "a", "s", "k">>) @@
    ("Express.js" :> <<"E", "x", "p", "r", "e", "s", "s", ".", "j", "s">>) @@
    ("demo" :> <<"d", "e", "m", "o">>) @@
    ("manager" :> <<"m", "a", "n", "a", "g", "e", "r">>) @@
    ("-" :> <<"-">>) @@
    ("_" :> <<"_">>) @@
    (" " :> <<" ">>) @@
    ("models" :> <<"m", "o", "d", "e", "l", "s">>) @@
    ("Views" :> <<"V", "i", "e", "w", "s">>) @@
    ("viewmodels" :> <<"v", "i", "e", "w", "m", "o", "d", "e", "l", "s">>) @@
    ("presenters" :> <<"p", "r", "e", "s", "e", "n", "t", "e", "r", "s">>) @@
    ("domain" :> <<"d", "o", "m", "a", "i", "n">>)

Chars6 ==
    ("entities" :> <<"e", "n", "t", "i", "t", "i", "e", "s">>) @@
    ("application" :> <<"a", "p", "p", "l", "i", "c", "a", "t", "i", "o", "n">>) @@
    ("usecases" :> <<"u", "s", "e", "c", "a", "s", "e", "s">>) @@
    ("use_cases" :> <<"u", "s", "e", "_", "c", "a", "s", "e", "s">>) @@
    ("infrastructure" :> <<"i", "n", "f", "r", "a", "s", "t", "r", "u", "c", "t", "u", "r", "e">>) @@
    ("frameworks" :> <<"f", "r", "a", "m", "e", "w", "o", "r", "k", "s">>) @@
    ("data" :> <<"d", "a", "t", "a">>) @@
    ("presentation" :> <<"p", "r", "e", "s", "e", "n", "t", "a", "t", "i", "o", "n">>) @@
    ("ui" :> <<"u", "i">>) @@
    ("persistence" :> <<"p", "e", "r", "s", "i", "s", "t", "e", "n", "c", "e">>) @@
    ("services" :> <<"s", "e", "r", "v", "i", "c", "e", "s">>) @@
    ("Services" :> <<"S", "e", "r", "v", "i", "c", "e", "s">>) @@
    ("repositories" :> <<"r", "e", "p", "o", "s", "i", "t", "o", "r", "i", "e", "s">>) @@
    ("factory" :> <<"f", "a", "c", "t", "o", "r", "y">>) @@
    ("user_factory.py" :> <<"u", "s", "e", "r", "_", "f", "a", "c", "t", "o", "r", "y", ".", "p", "y">>) @@
    ("aggregates" :> <<"a", "g", "g", "r", "e", "g", "a", "t", "e", "s">>) @@
    ("value_objects" :> <<"v", "a", "l", "u", "e", "_", "o", "b", "j", "e", "c", "t", "s">>) @@
    ("src" :> <<"s", "r", "c">>) @@
    ("a" :> <<"a">>) @@
    ("b" :> <<"b">>) @@
    ("c" :> <<"c">>) @@
    ("." :> <<".">>) @@
    ("" :> <<>>) @@
    ("flask==2.0.1" :> <<"f", "l", "a", "s", "k", "=", "=", "2", ".", "0", ".", "1">>) @@
    ("requests>=2.0" :> <<"r", "e", "q", "u", "e", "s", "t", "s", ">", "=", "2", ".", "0">>) @@
    ("# comment" :> <<"#", " ", "c", "o", "m", "m", "e", "n", "t">>) @@
    ("  numpy  " :> <<" ", " ", "n", "u", "m", "p", "y", " ", " ">>) @@
    ("django<=3.2" :> <<"d", "j", "a", "n", "g", "o", "<", "=", "3", ".", "2">>) @@
    ("pytest~=7.0" :> <<"p", "y", "t", "e", "s", "t", "~", "=", "7", ".", "0">>) @@
    ("a>=1,==2" :> <<"a", ">", "=", "1", ",", "=", "=", "2">>)

Chars7 ==
    ("  # note" :> <<" ", " ", "#", " ", "n", "o", "t", "e">>) @@
    ("pkg == 1.0 " :> <<"p", "k", "g", " ", "=", "=", " ", "1", ".", "0", " ">>) @@
    ("b~=1,<=2" :> <<"b", "~", "=", "1", ",", "<", "=", "2">>) @@
    ("==" :> <<"=", "=">>) @@
    (">=" :> <<">", "=">>) @@
    ("<=" :> <<"<", "=">>) @@
    ("~=" :> <<"~", "=">>) @@
    ("#" :> <<"#">>) @@
    ("2.0.1" :> <<"2", ".", "0", ".", "1">>) @@
    ("2.0" :> <<"2", ".", "0">>) @@
    ("3.2" :> <<"3", ".", "2">>) @@
    ("7.0" :> <<"7", ".", "0">>) @@
    ("a>=1," :> <<"a", ">", "=", "1", ",">>) @@
    ("2" :> <<"2">>) @@
    ("pkg" :> <<"p", "k", "g">>) @@
    ("1.0" :> <<"1", ".", "0">>) @@
    ("b~=1," :> <<"b", "~", "=", "1", ",">>) @@
    (".git" :> <<".", "g", "i", "t">>) @@
    (".github" :> <<".", "g", "i", "t", "h", "u", "b">>) @@
    (".vscode" :> <<".", "v", "s", "c", "o", "d", "e">>) @@
    (".idea" :> <<".", "i", "d", "e", "a">>) @@
    (".vs" :> <<".", "v", "s">>) @@
    ("node_modules" :> <<"n", "o", "d", "e", "_", "m", "o", "d", "u", "l", "e", "s">>) @@
    ("__pycache__" :> <<"_", "_", "p", "y", "c", "a", "c", "h", "e", "_", "_">>) @@
    ("venv" :> <<"v", "e", "n", "v">>) @@
    ("env" :> <<"e", "n", "v">>) @@
    ("dist" :> <<"d", "i", "s", "t">>) @@
    ("build" :> <<"b", "u", "i", "l", "d">>) @@
    ("target" :> <<"t", "a", "r", "g", "e", "t">>) @@
    ("bin" :> <<"b", "i", "n">>)

Chars8 ==
    ("obj" :> <<"o", "b", "j">>) @@
    (".pytest_cache" :> <<".", "p", "y", "t", "e", "s", "t", "_", "c", "a", "c", "h", "e">>) @@
    (".coverage" :> <<".", "c", "o", "v", "e", "r", "a", "g", "e">>) @@
    (".next" :> <<".", "n", "e", "x", "t">>) @@
    ("coverage" :> <<"c", "o", "v", "e", "r", "a", "g", "e">>) @@
    (".nuget" :> <<".", "n", "u", "g", "e", "t">>) @@
    ("packages" :> <<"p", "a", "c", "k", "a", "g", "e", "s">>) @@
    (".gradle" :> <<".", "g", "r", "a", "d", "l", "e">>) @@
    (".gitignore" :> <<".", "g", "i", "t", "i", "g", "n", "o", "r", "e">>) @@
    (".gitattributes" :> <<".", "g", "i", "t", "a", "t", "t", "r", "i", "b", "u", "t", "e", "s">>) @@
    (".DS_Store" :> <<".", "D", "S", "_", "S", "t", "o", "r", "e">>) @@
    ("Thumbs.db" :> <<"T", "h", "u", "m", "b", "s", ".", "d", "b">>) @@
    (".env" :> <<".", "e", "n", "v">>) @@
    (".env.local" :> <<".", "e", "n", "v", ".", "l", "o", "c", "a", "l">>) @@
    (".env.development" :> <<".", "e", "n", "v", ".", "d", "e", "v", "e", "l", "o", "p", "m", "e", "n", "t">>) @@
    (".env.test" :> <<".", "e", "n", "v", ".", "t", "e", "s", "t">>) @@
    (".env.production" :> <<".", "e", "n", "v", ".", "p", "r", "o", "d", "u", "c", "t", "i", "o", "n">>) @@
    ("*.pyc" :> <<"*", ".", "p", "y", "c">>) @@
    ("*.pyo" :> <<"*", ".", "p", "y", "o">>) @@
    ("*.pyd" :> <<"*", ".", "p", "y", "d">>) @@
    ("*.so" :> <<"*", ".", "s", "o">>) @@
    ("*.dll" :> <<"*", ".", "d", "l", "l">>) @@
    ("*.exe" :> <<"*", ".", "e", "x", "e">>) @@
    ("*.obj" :> <<"*", ".", "o", "b", "j">>) @@
    ("*.o" :> <<"*", ".", "o">>) @@
    ("*.a" :> <<"*", ".", "a">>) @@
    ("*.lib" :> <<"*", ".", "l", "i", "b">>) @@
    ("*.egg" :> <<"*", ".", "e", "g", "g">>) @@
    ("*.egg-info" :> <<"*", ".", "e", "g", "g", "-", "i", "n", "f", "o">>) @@
    ("*.whl" :> <<"*", ".", "w", "h", "l">>)

Chars9 ==
    ("*.pdb" :> <<"*", ".", "p", "d", "b">>) @@
    ("*.cache" :> <<"*", ".", "c", "a", "c", "h", "e">>) @@
    ("*.class" :> <<"*", ".", "c", "l", "a", "s", "s">>) @@
    ("*.jar" :> <<"*", ".", "j", "a", "r">>) @@
    ("*.war" :> <<"*", ".", "w", "a", "r">>) @@
    ("*.ear" :> <<"*", ".", "e", "a", "r">>) @@
    ("*.zip" :> <<"*", ".", "z", "i", "p">>) @@
    ("*.tar.gz" :> <<"*", ".", "t", "a", "r", ".", "g", "z">>) @@
    ("*.rar" :> <<"*", ".", "r", "a", "r">>) @@
    ("a.py" :> <<"a", ".", "p", "y">>) @@
    ("b.PY" :> <<"b", ".", "P", "Y">>) @@
    ("Makefile" :> <<"M", "a", "k", "e", "f", "i", "l", "e">>) @@
    ("c.pyc" :> <<"c", ".", "p", "y", "c">>) @@
    ("d.py" :> <<"d", ".", "p", "y">>) @@
    ("main.py" :> <<"m", "a", "i", "n", ".", "p", "y">>) @@
    ("core" :> <<"c", "o", "r", "e">>) @@
    ("my-project_dir" :> <<"m", "y", "-", "p", "r", "o", "j", "e", "c", "t", "_", "d", "i", "r">>) @@
    ("web-app" :> <<"w", "e", "b", "-", "a", "p", "p">>) @@
    ("A web app" :> <<"A", " ", "w", "e", "b", " ", "a", "p", "p">>) @@
    ("mypkg" :> <<"m", "y", "p", "k", "g">>) @@
    ("mycrate" :> <<"m", "y", "c", "r", "a", "t", "e">>) @@
    ("App.csproj" :> <<"A", "p", "p", ".", "c", "s", "p", "r", "o", "j">>) @@
    ("Other.Tests.csproj" :> <<"O", "t", "h", "e", "r", ".", "T", "e", "s", "t", "s", ".", "c", "s", "p", "r", "o", "j">>) @@
    ("OtherAssembly" :> <<"O", "t", "h", "e", "r", "A", "s", "s", "e", "m", "b", "l", "y">>) @@
    ("MyAssembly" :> <<"M", "y", "A", "s", "s", "e", "m", "b", "l", "y">>) @@
    (".csproj" :> <<".", "c", "s", "p", "r", "o", "j">>) @@
    ("App" :> <<"A", "p", "p">>) @@
    ("Other.Tests" :> <<"O", "t", "h", "e", "r", ".", "T", "e", "s", "t", "s">>) @@
    ("..." :> <<".", ".", ".">>) @@
    (".py" :> <<".", "p", "y">>)

Chars10 ==
    (".cs" :> <<".", "c", "s">>) @@
    ("A " :> <<"A", " ">>) @@
    (" project with modules for " :> <<" ", "p", "r", "o", "j", "e", "c", "t", " ", "w", "i", "t", "h", " ", "m", "o", "d", "u", "l", "e", "s", " ", "f", "o", "r", " ">>) @@
    (" project" :> <<" ", "p", "r", "o", "j", "e", "c", "t">>) @@
    (", " :> <<",", " ">>) @@
    ("Project without description" :> <<"P", "r", "o", "j", "e", "c", "t", " ", "w", "i", "t", "h", "o", "u", "t", " ", "d", "e", "s", "c", "r", "i", "p", "t", "i", "o", "n">>) @@
    ("# Title" :> <<"#", " ", "T", "i", "t", "l", "e">>) @@
    ("Plain text" :> <<"P", "l", "a", "i", "n", " ", "t", "e", "x", "t">>) @@
    ("  padded text  " :> <<" ", " ", "p", "a", "d", "d", "e", "d", " ", "t", "e", "x", "t", " ", " ">>) @@
    ("From csproj" :> <<"F", "r", "o", "m", " ", "c", "s", "p", "r", "o", "j">>) @@
    ("From assembly info" :> <<"F", "r", "o", "m", " ", "a", "s", "s", "e", "m", "b", "l", "y", " ", "i", "n", "f", "o">>) @@
    ("Main entry point of the tool" :> <<"M", "a", "i", "n", " ", "e", "n", "t", "r", "y", " ", "p", "o", "i", "n", "t", " ", "o", "f", " ", "t", "h", "e", " ", "t", "o", "o", "l">>) @@
    ("Short doc" :> <<"S", "h", "o", "r", "t", " ", "d", "o", "c">>) @@
    ("Starts the web server" :> <<"S", "t", "a", "r", "t", "s", " ", "t", "h", "e", " ", "w", "e", "b", " ", "s", "e", "r", "v", "e", "r">>) @@
    ("Utility helpers shared by all the commands" :> <<"U", "t", "i", "l", "i", "t", "y", " ", "h", "e", "l", "p", "e", "r", "s", " ", "s", "h", "a", "r", "e", "d", " ", "b", "y", " ", "a", "l", "l", " ", "t", "h", "e", " ", "c", "o", "m", "m", "a", "n", "d", "s">>) @@
    ("Helper class" :> <<"H", "e", "l", "p", "e", "r", " ", "c", "l", "a", "s", "s">>) @@
    ("my_lib" :> <<"m", "y", "_", "l", "i", "b">>) @@
    ("docs" :> <<"d", "o", "c", "s">>) @@
    ("util.py" :> <<"u", "t", "i", "l", ".", "p", "y">>) @@
    ("big.py" :> <<"b", "i", "g", ".", "p", "y">>) @@
    ("Helper.cs" :> <<"H", "e", "l", "p", "e", "r", ".", "c", "s">>) @@
    ("index.js" :> <<"i", "n", "d", "e", "x", ".", "j", "s">>) @@
    ("   " :> <<" ", " ", " ">>) @@
    ("  # indented" :> <<" ", " ", "#", " ", "i", "n", "d", "e", "n", "t", "e", "d">>) @@
    ("@scope" :> <<"@", "s", "c", "o", "p", "e">>) @@
    ("@angular" :> <<"@", "a", "n", "g", "u", "l", "a", "r">>) @@
    ("name" :> <<"n", "a", "m", "e">>) @@
    ("sub" :> <<"s", "u", "b">>) @@
    ("vue" :> <<"v", "u", "e">>) @@
    ("axios" :> <<"a", "x", "i", "o", "s">>)

Chars11 ==
    ("mongoose" :> <<"m", "o", "n", "g", "o", "o", "s", "e">>) @@
    ("sequelize" :> <<"s", "e", "q", "u", "e", "l", "i", "z", "e">>) @@
    ("webpack" :> <<"w", "e", "b", "p", "a", "c", "k">>) @@
    ("babel" :> <<"b", "a", "b", "e", "l">>) @@
    ("redux" :> <<"r", "e", "d", "u", "x">>) @@
    ("next" :> <<"n", "e", "x", "t">>) @@
    ("gatsby" :> <<"g", "a", "t", "s", "b", "y">>) @@
    ("youtube-api" :> <<"y", "o", "u", "t", "u", "b", "e", "-", "a", "p", "i">>) @@
    ("ytdl-core" :> <<"y", "t", "d", "l", "-", "c", "o", "r", "e">>) @@
    ("Tests" :> <<"T", "e", "s", "t", "s">>) @@
    ("lib" :> <<"l", "i", "b">>) @@
    ("org.springframework.boot" :> <<"o", "r", "g", ".", "s", "p", "r", "i", "n", "g", "f", "r", "a", "m", "e", "w", "o", "r", "k", ".", "b", "o", "o", "t">>) @@
    ("org.springframework" :> <<"o", "r", "g", ".", "s", "p", "r", "i", "n", "g", "f", "r", "a", "m", "e", "w", "o", "r", "k">>) @@
    ("com.example" :> <<"c", "o", "m", ".", "e", "x", "a", "m", "p", "l", "e">>) @@
    ("org.junit" :> <<"o", "r", "g", ".", "j", "u", "n", "i", "t">>) @@
    ("spring-boot-starter-parent" :> <<"s", "p", "r", "i", "n", "g", "-", "b", "o", "o", "t", "-", "s", "t", "a", "r", "t", "e", "r", "-", "p", "a", "r", "e", "n", "t">>) @@
    ("spring-boot-starter-web" :> <<"s", "p", "r", "i", "n", "g", "-", "b", "o", "o", "t", "-", "s", "t", "a", "r", "t", "e", "r", "-", "w", "e", "b">>) @@
    ("spring-boot-starter-test" :> <<"s", "p", "r", "i", "n", "g", "-", "b", "o", "o", "t", "-", "s", "t", "a", "r", "t", "e", "r", "-", "t", "e", "s", "t">>) @@
    ("spring-boot-devtools" :> <<"s", "p", "r", "i", "n", "g", "-", "b", "o", "o", "t", "-", "d", "e", "v", "t", "o", "o", "l", "s">>) @@
    ("spring-boot-starter" :> <<"s", "p", "r", "i", "n", "g", "-", "b", "o", "o", "t", "-", "s", "t", "a", "r", "t", "e", "r">>) @@
    ("home" :> <<"h", "o", "m", "e">>) @@
    ("proj" :> <<"p", "r", "o", "j">>) @@
    ("dist-site" :> <<"d", "i", "s", "t", "-", "s", "i", "t", "e">>) @@
    ("- [Overview](#overview)" :> <<"-", " ", "[", "O", "v", "e", "r", "v", "i", "e", "w", "]", "(", "#", "o", "v", "e", "r", "v", "i", "e", "w", ")">>) @@
    ("- [Features](#features)" :> <<"-", " ", "[", "F", "e", "a", "t", "u", "r", "e", "s", "]", "(", "#", "f", "e", "a", "t", "u", "r", "e", "s", ")">>) @@
    ("## Overview" :> <<"#", "#", " ", "O", "v", "e", "r", "v", "i", "e", "w">>) @@
    ("## Table of Contents" :> <<"#", "#", " ", "T", "a", "b", "l", "e", " ", "o", "f", " ", "C", "o", "n", "t", "e", "n", "t", "s">>) @@
    ("Documentation is available in the project directory." :> <<"D", "o", "c", "u", "m", "e", "n", "t", "a", "t", "i", "o", "n", " ", "i", "s", " ", "a", "v", "a", "i", "l", "a", "b", "l", "e", " ", "i", "n", " ", "t", "h", "e", " ", "p", "r", "o", "j", "e", "c", "t", " ", "d", "i", "r", "e", "c", "t", "o", "r", "y", ".">>) @@
    ("# " :> <<"#", " ">>) @@
    ("overview" :> <<"o", "v", "e", "r", "v", "i", "e", "w">>)

Chars12 ==
    ("features" :> <<"f", "e", "a", "t", "u", "r", "e", "s">>)

Chars ==
    Chars1 @@ Chars2 @@ Chars3 @@ Chars4 @@ Chars5 @@ Chars6 @@ Chars7 @@
    Chars8 @@ Chars9 @@ Chars10 @@ Chars11 @@ Chars12

LowerChar(c) ==
    CASE c = "A" -> "a" [] c = "B" -> "b" [] c = "C" -> "c" [] c = "D" -> "d"
      [] c = "E" -> "e" [] c = "F" -> "f" [] c = "G" -> "g" [] c = "H" -> "h"
      [] c = "I" -> "i" [] c = "J" -> "j" [] c = "K" -> "k" [] c = "L" -> "l"
      [] c = "M" -> "m" [] c = "N" -> "n" [] c = "O" -> "o" [] c = "P" -> "p"
      [] c = "Q" -> "q" [] c = "R" -> "r" [] c = "S" -> "s" [] c = "T" -> "t"
      [] c = "U" -> "u" [] c = "V" -> "v" [] c = "W" -> "w" [] c = "X" -> "x"
      [] c = "Y" -> "y" [] c = "Z" -> "z"
      [] OTHER -> c

\* str.lower()
lower(text) == [i \in 1..Len(text) |-> LowerChar(text[i])]

\* the text of a file whose words are separated by one blank
RECURSIVE Join(_)
Join(words) ==
    IF words = <<>> THEN <<>>
    ELSE IF Len(words) = 1 THEN Chars[words[1]]
    ELSE Chars[words[1]] \o <<" ">> \o Join(Tail(words))

\* the positions at which needle stands in text
Positions(needle, text) ==
    {p \in 1..(Len(text) - Len(needle) + 1) :
        \A k \in 1..Len(needle) : text[p + k - 1] = needle[k]}

\* needle in text
Contains(needle, text) == Positions(needle, text) # {}

----------------------------------------------------------------------------
(* The detectors of TechnologyAnalyzer.  The library tables are cut to the *)
(* rows a catalogue entry can reach.                                       *)

Call(category, name, importance) ==
    [category |-> category, name |-> name, importance |-> importance]

\* a run of self._add_technology_if_not_exists(result, ...) calls, in order
RECURSIVE ApplyCalls(_, _)
ApplyCalls(tbl, calls) ==
    IF calls = <<>> THEN tbl
    ELSE ApplyCalls(
            _add_technology_if_not_exists(tbl, Head(calls).category,
                                          Head(calls).name,
                                          Head(calls).importance),
            Tail(calls))

\* table[key] = table.get(key, 0) + n on the items of a dict
Bump(table, key, n) ==
    IF TableHas(table, key)
    THEN [i \in 1..Len(table) |->
            IF table[i].key = key
            THEN [key |-> key, value |-> table[i].value + n]
            ELSE table[i]]
    ELSE Append(table, [key |-> key, value |-> n])

\* extension_counts after the walk (files without extension are not counted)
RECURSIVE CountExtensions(_, _)
CountExtensions(files, counts) ==
    IF files = <<>> THEN counts
    ELSE CountExtensions(
            Tail(files),
            IF Head(files).ext = "" THEN counts
            ELSE Bump(counts, Head(files).ext, 1))

\* languages: the counts of the configured extensions summed per language
RECURSIVE SumLanguages(_, _, _)
SumLanguages(counts, extensions_config, languages) ==
    IF counts = <<>> THEN languages
    ELSE SumLanguages(
            Tail(counts), extensions_config,
            IF TableHas(extensions_config, Head(counts).key)
            THEN Bump(languages, TableGet(extensions_config, Head(counts).key),
                      Head(counts).value)
            ELSE languages)

\* sorted(items, key=count, reverse=True): stable, so ties keep their order
RECURSIVE SortedByCount(_)
SortedByCount(items) ==
    IF items = <<>> THEN <<>>
    ELSE LET n == Len(items)
             front == SortedByCount(SubSeq(items, 1, n - 1))
             pos == Cardinality({i \in 1..Len(front) :
                                    front[i].value >= items[n].value})
         IN  SubSeq(front, 1, pos) \o <<items[n]>> \o
             SubSeq(front, pos + 1, Len(front))

\* the ranks from 2 on all alike
RankImportanceOfThree(i) == IF i = 0 THEN 5 ELSE IF i = 1 THEN 4 ELSE 3

\* importance of the language at rank i (from 0)
RankImportance(i) ==
    IF i = 0 THEN 5 ELSE IF i = 1 THEN 4 ELSE IF i < 4 THEN 3 ELSE 2

\* _analyze_file_extensions from the files the walk has met
language_census(files, extensions_config, tbl) ==
    LET counts == CountExtensions(files, <<>>)
        sorted_languages ==
            SortedByCount(SumLanguages(counts, extensions_config, <<>>))
        k == KeyIndex(tbl, "language")
    IN  [tbl EXCEPT ![k].items = @ \o
            [i \in 1..Len(sorted_languages) |->
                [name |-> sorted_languages[i].key,
                 count |-> sorted_languages[i].value,
                 importance |-> RankImportance(i - 1)]]]

\* TechnologyAnalyzer._analyze_file_extensions, after its get_config
_analyze_file_extensions(project, extensions_config, tbl) ==
    language_census(WalkFiles(project), extensions_config, tbl)

\* str.splitlines(), for texts whose lines end in "\n"
RECURSIVE splitlines(_)
splitlines(text) ==
    IF text = <<>> THEN <<>>
    ELSE LET ends == {p \in 1..Len(text) : text[p] = "\n"}
         IN  IF ends = {} THEN <<text>>
             ELSE LET nl == CHOOSE p \in ends : \A q \in ends : p <= q
                  IN  <<SubSeq(text, 1, nl - 1)>>
                        \o splitlines(SubSeq(text, nl + 1, Len(text)))

Whitespace == {" ", "\t", "\r", "\n"}

\* str.strip()
strip(text) ==
    LET inked == {p \in 1..Len(text) : text[p] \notin Whitespace}
    IN  IF inked = {} THEN <<>>
        ELSE SubSeq(text,
                    CHOOSE p \in inked : \A q \in inked : p <= q,
                    CHOOSE p \in inked : \A q \in inked : p >= q)

\* text.split(sep, 1), sep standing in text
split_once(text, sep) ==
    LET at == Positions(sep, text)
        p == CHOOSE x \in at : \A y \in at : x <= y
    IN  [name |-> SubSeq(text, 1, p - 1),
         version |-> SubSeq(text, p + Len(sep), Len(text))]

\* a slip of the if/elif chain: '>=' is tested before '=='
operator_ge_first(line) ==
    CASE Contains(Chars[">="], line) -> ">="
      [] Contains(Chars["=="], line) -> "=="
      [] Contains(Chars["<="], line) -> "<="
      [] Contains(Chars["~="], line) -> "~="
      [] OTHER -> ""

\* the if/elif chain over the operators: the one the line is split on
operator_of(line) ==
    IF Contains(Chars["=="], line) THEN "=="
    ELSE IF Contains(Chars[">="], line) THEN ">="
    ELSE IF Contains(Chars["<="], line) THEN "<="
    ELSE IF Contains(Chars["~="], line) THEN "~="
    ELSE ""

\* the body of the loop over the lines: the packages of the lines
RECURSIVE requirement_packages(_)
requirement_packages(lines) ==
    IF lines = <<>> THEN <<>>
    ELSE LET line == strip(Head(lines))
             rest == requirement_packages(Tail(lines))
             op == operator_of(line)
             parts == IF op = "" THEN [name |-> line, version |-> <<>>]
                      ELSE split_once(line, Chars[op])
         IN  IF line = <<>> \/ line[1] = "#" THEN rest
             ELSE <<[name |-> strip(parts.name),
                     version |-> strip(parts.version)]>> \o rest

\* _parse_requirements_txt on a file [readable, content]: its packages,
\* [] when the read fails
_parse_requirements_txt(file) ==
    IF file.readable THEN requirement_packages(splitlines(file.content))
    ELSE <<>>

\* the requirements.txt of a project of the pipeline
RequirementsFile(project) ==
    [readable |-> Readable(project, "requirements.txt"),
     content |-> Chars["flask==2.0.1"] \o <<"\n">>]

\* _process_python_packages
_process_python_packages(packages) ==
    <<Call("language", "Python", 5)>> \o
    (IF \E i \in 1..Len(packages) : lower(packages[i].name) = Chars["flask"]
     THEN <<Call("framework", "Flask", 5),      \* name in frameworks
            Call("framework", "Flask", 5)>>     \* name.startswith("flask")
     ELSE <<>>)

\* _parse_package_json: all_dependencies, in the file's order; {} when the
\* read or json.loads fails
_parse_package_json(project) ==
    IF Readable(project, "package.json")
    THEN SelectSeq(<<"express", "react">>,
            LAMBDA d : IF d = "express" THEN "package.json:express" \in project
                       ELSE "package.json:react" \in project)
    ELSE <<>>

\* the for loop of _process_js_packages over deps.items()
RECURSIVE JsLibraryCalls(_)
JsLibraryCalls(deps) ==
    IF deps = <<>> THEN <<>>
    ELSE (CASE Head(deps) = "express" -> <<Call("backend", "Express.js", 5)>>
            [] Head(deps) = "react" -> <<Call("frontend", "React", 5)>>
            [] OTHER -> <<>>)
         \o JsLibraryCalls(Tail(deps))

\* _process_js_packages
_process_js_packages(deps) ==
    LET is_frontend == "react" \in Range(deps)
        is_backend == "express" \in Range(deps)
    IN  <<Call("language", "JavaScript", 5)>> \o
        JsLibraryCalls(deps) \o
        (IF is_frontend /\ is_backend
         THEN <<Call("other", "Fullstack JavaScript", 4)>> ELSE <<>>) \o
        (IF "react" \in Range(deps)
         THEN <<Call("frontend", "React", 5)>> ELSE <<>>)

\* _analyze_package_files after its get_config: the upserts made and the
\* exception that ends it ("" for none).  build.gradle is read outside any
\* try block.
_analyze_package_files(project) ==
    LET requirements ==
            IF file_exists(project, "requirements.txt")
            THEN _process_python_packages(
                    _parse_requirements_txt(RequirementsFile(project)))
            ELSE <<>>
        setup_py ==
            IF file_exists(project, "setup.py")
            THEN <<Call("language", "Python", 5)>> ELSE <<>>
        package_json ==
            IF file_exists(project, "package.json")
            THEN _process_js_packages(_parse_package_json(project))
            ELSE <<>>
        upto_gradle == requirements \o setup_py \o package_json
    IN  IF ~file_exists(project, "build.gradle")
        THEN [exc |-> "", calls |-> upto_gradle]
        ELSE IF ~Readable(project, "build.gradle")
        THEN [exc |-> "ReadError",
              calls |-> upto_gradle \o <<Call("devops", "Gradle", 3)>>]
        ELSE [exc |-> "",
              calls |-> upto_gradle \o <<Call("devops", "Gradle", 3),
                                         Call("language", "Java", 5)>>]

\* _determine_technology_category on the technology names of project_files
_determine_technology_category(technology) ==
    CASE technology = "Docker" -> "devops"      \* 'docker' in devops_techs
      [] OTHER -> "other"

\* fnmatch.fnmatch(file.lower(), pattern.lower()) on the catalogue's files
fnmatch(name, pattern) ==
    CASE pattern = "*.gradle" -> name = "build.gradle"
      [] OTHER -> name = pattern

\* the loop of _analyze_config_files over project_files_config.items()
RECURSIVE MarkerCalls(_, _)
MarkerCalls(project, table) ==
    IF table = <<>> THEN <<>>
    ELSE LET file_pattern == Head(table).key
             technology == Head(table).value
             hit == Call(_determine_technology_category(technology),
                         technology, 3)
             found ==
                IF file_pattern = "*.gradle"            \* '*' in file_pattern
                THEN \E i \in 1..Len(WalkFiles(project)) :
                        fnmatch(WalkFiles(project)[i].name, file_pattern)
                ELSE file_exists(project, file_pattern)
         IN  (IF found THEN <<hit>> ELSE <<>>) \o
             MarkerCalls(project, Tail(table))

\* _check_devops_tools on the marker files and marker directories present
\* at the project root: four `if`, the if/elif chain of the CI services,
\* three `if`
devops_calls(files, dirs) ==
    LET any_file(names) == names \cap files # {}
        any_dir(names) == names \cap dirs # {}
        when(found, name, importance) ==
            IF found THEN <<Call("devops", name, importance)>> ELSE <<>>
    IN  when(any_file({"Dockerfile", "docker-compose.yml",
                       "docker-compose.yaml"}), "Docker", 4)
        \o when(any_file({"kubernetes.yaml", "kubernetes.yml", "k8s.yaml",
                          "k8s.yml", "deployment.yaml", "service.yaml"}),
                "Kubernetes", 4)
        \o when(any_dir({"helm", "charts"}), "Helm", 3)
        \o (IF any_dir({".github/workflows"})
            THEN <<Call("devops", "GitHub Actions", 3)>>
            ELSE IF any_file({".gitlab-ci.yml", ".gitlab-ci.yaml"})
            THEN <<Call("devops", "GitLab CI", 3)>>
            ELSE IF any_file({".travis.yml", ".travis.yaml"})
            THEN <<Call("devops", "Travis CI", 3)>>
            ELSE IF any_file({"Jenkinsfile"})
            THEN <<Call("devops", "Jenkins", 3)>>
            ELSE IF any_file({"azure-pipelines.yml", "azure-pipelines.yaml"})
            THEN <<Call("devops", "Azure Pipelines", 3)>>
            ELSE IF any_file({"appveyor.yml", "appveyor.yaml"})
            THEN <<Call("devops", "AppVeyor", 3)>>
            ELSE IF any_file({"buildspec.yml", "buildspec.yaml"})
            THEN <<Call("devops", "AWS CodeBuild", 3)>>
            ELSE <<>>)
        \o when(any_file({"main.tf", "variables.tf", "terraform.tf"}),
                "Terraform", 4)
        \o when(any_file({"ansible.cfg", "playbook.yml", "playbook.yaml",
                          "inventory.ini", "hosts"}) \/ any_dir({"roles"}),
                "Ansible", 4)
        \o when(any_file({"pulumi.yaml", "Pulumi.yaml"}), "Pulumi", 4)

\* the marker files and marker directories _check_devops_tools asks for
DevopsFiles ==
    {"Dockerfile", "docker-compose.yml", "docker-compose.yaml",
     "kubernetes.yaml", "kubernetes.yml", "k8s.yaml", "k8s.yml",
     "deployment.yaml", "service.yaml", ".gitlab-ci.yml", ".gitlab-ci.yaml",
     ".travis.yml", ".travis.yaml", "Jenkinsfile", "azure-pipelines.yml",
     "azure-pipelines.yaml", "appveyor.yml", "appveyor.yaml",
     "buildspec.yml", "buildspec.yaml", "main.tf", "variables.tf",
     "terraform.tf", "ansible.cfg", "playbook.yml", "playbook.yaml",
     "inventory.ini", "hosts", "pulumi.yaml", "Pulumi.yaml"}

DevopsDirs == {"helm", "charts", ".github/workflows", "roles"}

\* _check_devops_tools
_check_devops_tools(project) ==
    devops_calls({f \in DevopsFiles : file_exists(project, f)},
                 {d \in DevopsDirs : isdir(project, d)})

\* the loop of _check_framework_directories over the root's directories
RECURSIVE DirectoryCalls(_)
DirectoryCalls(dirs) ==
    IF dirs = <<>> THEN <<>>
    ELSE (CASE Head(dirs) = "routes" -> <<Call("backend", "Routing", 3)>>
            [] Head(dirs) = "express" -> <<Call("backend", "Express.js", 4)>>
            [] OTHER -> <<>>)
         \o DirectoryCalls(Tail(dirs))

\* _analyze_config_files after its get_config
_analyze_config_files(project, project_files_config) ==
    MarkerCalls(project, project_files_config) \o
    _check_devops_tools(project) \o
    DirectoryCalls(RootDirs(project))

\* _analyze_cpp_projects: CMakeLists.txt is read outside any try block
_analyze_cpp_projects(project) ==
    IF ~file_exists(project, "CMakeLists.txt")
    THEN [exc |-> "", calls |-> <<>>]
    ELSE IF ~Readable(project, "CMakeLists.txt")
    THEN [exc |-> "ReadError", calls |-> <<Call("devops", "CMake", 4)>>]
    ELSE [exc |-> "",
          calls |-> <<Call("devops", "CMake", 4), Call("language", "C++", 5)>>]

\* the loop of _analyze_specific_files: every key is taken as a file name
RECURSIVE SpecificFileCalls(_, _)
SpecificFileCalls(project, table) ==
    IF table = <<>> THEN <<>>
    ELSE (IF file_exists(project, Head(table).key)
          THEN <<Call(_determine_technology_category(Head(table).value),
                      Head(table).value, 3)>>
          ELSE <<>>)
         \o SpecificFileCalls(project, Tail(table))

----------------------------------------------------------------------------
(* ProjectAnalyzer: source enrichment, conversion, architecture.           *)

\* str.lower() on the names the model holds
Lower(name) ==
    CASE name = "Python" -> "python"
      [] name = "JavaScript" -> "javascript"
      [] name = "TypeScript" -> "typescript"
      [] name = "Java" -> "java"
      [] name = "C++" -> "c++"
      [] name = "Flask" -> "flask"
      [] name = "Express.js" -> "express.js"
      [] name = "React" -> "react"
      [] name = "Fullstack JavaScript" -> "fullstack javascript"
      [] name = "Gradle" -> "gradle"
      [] name = "Docker" -> "docker"
      [] name = "CMake" -> "cmake"
      [] name = "Routing" -> "routing"
      [] OTHER -> name

\* the known library a source file of the catalogue imports, with its
\* library category (python_libraries / js_libraries), "" when none
ImportedLibrary(file) ==
    CASE file = "app.py" -> [lib |-> "flask", category |-> "framework"]
      [] file = "server.js" -> [lib |-> "express", category |-> "backend"]
      [] file = "index.ts" -> [lib |-> "react", category |-> "frontend"]
      [] OTHER -> [lib |-> "", category |-> ""]

\* _map_library_category_to_tech_category on the categories above
_map_library_category_to_tech_category(lib_category) ==
    CASE lib_category = "framework" -> "framework"
      [] lib_category = "frontend" -> "frontend"
      [] lib_category = "backend" -> "backend"
      [] OTHER -> "other"

\* source_files[:50]: the walked files with extension .py, .js or .ts
SourceFiles(project) ==
    SelectSeq(WalkFiles(project), LAMBDA f : f.ext \in {"py", "js", "ts"})

\* found_libraries: one item per known library, in the order first found
RECURSIVE FoundLibraries(_, _)
FoundLibraries(files, found) ==
    IF files = <<>> THEN found
    ELSE LET imp == ImportedLibrary(Head(files).name)
         IN  FoundLibraries(
                Tail(files),
                IF imp.lib = "" \/ TableHas(found, imp.lib) THEN found
                ELSE Append(found, [key |-> imp.lib, value |-> imp.category]))

\* the exists test without lower(): names compared as they are written
LibraryExistsExact(tbl, category, lib) ==
    \E j \in 1..Len(Items(tbl, category)) :
        Items(tbl, category)[j].name = lib

\* the exists test: some entry of the category has the library's name,
\* letter case aside
LibraryExists(tbl, category, lib) ==
    \E j \in 1..Len(Items(tbl, category)) :
        Lower(Items(tbl, category)[j].name) = Lower(lib)

\* the final loop of _enrich_technologies_from_source
RECURSIVE AppendLibraries(_, _)
AppendLibraries(tbl, found) ==
    IF found = <<>> THEN tbl
    ELSE LET lib == Head(found).key
             mapped_category ==
                _map_library_category_to_tech_category(Head(found).value)
             t == SetDefault(tbl, mapped_category)
         IN  AppendLibraries(
                IF LibraryExists(tbl, mapped_category, lib) THEN tbl
                ELSE [t EXCEPT ![KeyIndex(t, mapped_category)].items =
                        Append(@, [name |-> lib, importance |-> 3])],
                Tail(found))

\* ProjectAnalyzer._enrich_technologies_from_source
_enrich_technologies_from_source(project, tbl) ==
    AppendLibraries(tbl, FoundLibraries(SourceFiles(project), <<>>))

\* the loop of analyze over required_categories
RECURSIVE EnsureCategories(_, _)
EnsureCategories(tbl, required_categories) ==
    IF required_categories = <<>> THEN tbl
    ELSE EnsureCategories(SetDefault(tbl, Head(required_categories)),
                          Tail(required_categories))

required_categories ==
    <<"language", "framework", "frontend", "backend", "database",
      "devops", "testing", "architecture", "other">>

\* ProjectAnalyzer._convert_technologies_data
RECURSIVE _convert_technologies_data(_)
_convert_technologies_data(tbl) ==
    IF tbl = <<>> THEN <<>>
    ELSE [j \in 1..Len(Head(tbl).items) |->
            [name |-> Head(tbl).items[j].name,
             category |-> Head(tbl).cat,
             version |-> None,
             importance |-> Head(tbl).items[j].importance]]
         \o _convert_technologies_data(Tail(tbl))

\* A directory tree is the set of its nodes below the root, a node being
\* its path from the root (a sequence of names) and whether it is a
\* directory.
Node(path, dir) == [path |-> path, dir |-> dir]

IsPrefix(p, q) == Len(p) <= Len(q) /\ SubSeq(q, 1, Len(p)) = p

\* the order in which os.listdir gives the names the model holds
ListingOrder ==
    <<"src", "models", "Views", "controllers", "viewmodels", "presenters",
      "domain", "entities", "application", "infrastructure", "data",
      "services", "Services", "repositories", "routes", "express",
      "a", "b", "c", "user_factory.py",
      "pkg", "main.py", "node_modules", "core", "c.pyc">>

\* os.listdir(path)
listdir(tree, path) ==
    SelectSeq(ListingOrder,
              LAMBDA n : \E nd \in tree : nd.path = Append(path, n))

\* os.path.isdir(path)
os_path_isdir(tree, path) == path = <<>> \/ Node(path, TRUE) \in tree

\* the names of listdir(path) that are directories
SubDirs(tree, path) ==
    SelectSeq(listdir(tree, path),
              LAMBDA n : os_path_isdir(tree, Append(path, n)))

\* the tree of a project of the pipeline: its root directories
TreeOf(project) == {Node(<<d>>, TRUE) : d \in Range(RootDirs(project))}

\* ProjectAnalyzer._detect_architecture_description: the rules on the
\* lower-cased directory names under src/ (under the root without src/),
\* then the hints on the lower-cased technology names; parts are the
\* components joined into the sentence, modules the "Main modules"
_detect_architecture_description(tree, techs) ==
    LET src_path == <<"src">>
        scanned == IF os_path_isdir(tree, src_path) THEN src_path ELSE <<>>
        scanned_dirs ==
            SelectSeq(SubDirs(tree, scanned),
                LAMBDA d : scanned = <<>> => Chars[d][1] # ".")
        dir_names ==
            {lower(Chars[scanned_dirs[i]]) : i \in 1..Len(scanned_dirs)}
        has(d) == Chars[d] \in dir_names
        tech_names == {Lower(techs[i].name) : i \in 1..Len(techs)}
        layer_count ==
            Cardinality({d \in {"data", "domain", "application",
                                "presentation", "ui", "persistence"} :
                            has(d)})
        services_path ==
            IF "services" \in Range(listdir(tree, <<>>))
            THEN <<"services">> ELSE Append(src_path, "services")
        has_factory ==
            \E i \in 1..Len(scanned_dirs) : \E nd \in tree :
                /\ ~nd.dir
                /\ IsPrefix(Append(scanned, scanned_dirs[i]), nd.path)
                /\ Contains(Chars["factory"],
                            lower(Chars[nd.path[Len(nd.path)]]))
        domain_path ==
            IF "domain" \in Range(listdir(tree, <<>>))
            THEN <<"domain">> ELSE Append(src_path, "domain")
        domain_contents ==
            {lower(Chars[d]) : d \in Range(listdir(tree, domain_path))}
        architecture_components ==
            (IF has("models") /\ has("views") /\ has("controllers")
             THEN <<"MVC (Model-View-Controller)">> ELSE <<>>) \o
            (IF has("models") /\ has("views") /\ has("viewmodels")
             THEN <<"MVVM (Model-View-ViewModel)">> ELSE <<>>) \o
            (IF has("models") /\ has("views") /\ has("presenters")
             THEN <<"MVP (Model-View-Presenter)">> ELSE <<>>) \o
            (IF /\ has("domain") \/ has("entities")
                /\ has("application") \/ has("usecases") \/ has("use_cases")
                /\ has("infrastructure") \/ has("frameworks")
             THEN <<"Clean Architecture">> ELSE <<>>) \o
            (IF layer_count >= 2 THEN <<"Layered Architecture">> ELSE <<>>) \o
            (IF /\ has("services")
                /\ os_path_isdir(tree, services_path)
                /\ Len(SubDirs(tree, services_path)) > 2
             THEN <<"Service-Oriented Architecture">> ELSE <<>>) \o
            (IF has("repositories")
             THEN <<"Repository Pattern">> ELSE <<>>) \o
            (IF has_factory THEN <<"Factory Pattern">> ELSE <<>>) \o
            (IF "django" \in tech_names
             THEN <<"Django MTV (Model-Template-View)">> ELSE <<>>) \o
            (IF "flask" \in tech_names \/ "fastapi" \in tech_names
             THEN <<"REST API">> ELSE <<>>) \o
            (IF "express" \in tech_names
             THEN <<"Express.js Middleware Architecture">> ELSE <<>>) \o
            (IF "react" \in tech_names
             THEN <<"Component-Based Architecture">> ELSE <<>>) \o
            (IF /\ has("domain")
                /\ os_path_isdir(tree, domain_path)
                /\ \E n \in {"aggregates", "entities", "value_objects",
                             "services"} : Chars[n] \in domain_contents
             THEN <<"Domain-Driven Design (DDD)">> ELSE <<>>)
        tech_arch ==
            SelectSeq(techs, LAMBDA t : t.category = "architecture")
        modules ==
            IF "src" \in Range(listdir(tree, <<>>))
            THEN SubDirs(tree, src_path) ELSE <<>>
    IN  IF architecture_components # <<>>
        THEN [kind |-> "patterns", parts |-> architecture_components,
              modules |-> modules]
        ELSE IF tech_arch # <<>>
        THEN [kind |-> "approaches",
              parts |-> [i \in 1..Len(tech_arch) |-> tech_arch[i].name],
              modules |-> modules]
        ELSE [kind |-> "standard", parts |-> <<>>, modules |-> modules]

----------------------------------------------------------------------------
(* analyze(), one step per call it makes.                                  *)

ProjectValue ==
    [technologies |-> technologies,
     architecture_description |-> architecture_description]

Init ==
    /\ result = <<>>
    /\ before = <<>>
    /\ maxSeen = [p \in RegPairs |-> 0]
    /\ lastCall = NoCall
    /\ pc = "analyze"
    /\ fs \in Projects
    /\ config_file \in ConfigFiles
    /\ config_cache = None
    /\ raised = ""
    /\ technologies = <<>>
    /\ architecture_description = NoDescription
    /\ run = 1
    /\ first = NoProject
    /\ FeaturesIdle
    /\ CallIdle

\* A slip: the accumulator of an earlier call is used again.
DetectTechnologiesStale ==
    /\ pc = "analyze"
    /\ result' = IF result = <<>> THEN EmptyResult ELSE result
    /\ pc' = "_analyze_file_extensions"
    /\ UNCHANGED <<callVars, featVars, before, maxSeen, lastCall, fs, config_file, config_cache,
                   raised, technologies, architecture_description, run, first>>

\* detect_technologies: result = {"language": [], ...}
DetectTechnologies ==
    /\ pc = "analyze"
    /\ result' = EmptyResult
    /\ pc' = "_analyze_file_extensions"
    /\ UNCHANGED <<callVars, featVars, before, maxSeen, lastCall, fs, config_file, config_cache,
                   raised, technologies, architecture_description, run, first>>

AnalyzeFileExtensions ==
    /\ pc = "_analyze_file_extensions"
    /\ LET got == get_config(config_file, config_cache,
                             <<"analyzers", "file_extensions">>)
       IN  /\ config_cache' = got.cache
           /\ IF got.exc # ""
              THEN /\ pc' = "raised"
                   /\ raised' = got.exc
                   /\ UNCHANGED result
              ELSE /\ pc' = "_analyze_package_files"
                   /\ result' = _analyze_file_extensions(fs, got.value, result)
                   /\ UNCHANGED raised
    /\ UNCHANGED <<callVars, featVars, before, maxSeen, lastCall, fs, config_file, technologies,
                   architecture_description, run, first>>

AnalyzePackageFiles ==
    /\ pc = "_analyze_package_files"
    /\ LET got == get_config(config_file, config_cache,
                             <<"analyzers", "package_files">>)
           done == _analyze_package_files(fs)
       IN  /\ config_cache' = got.cache
           /\ IF got.exc # ""
              THEN /\ pc' = "raised"
                   /\ raised' = got.exc
                   /\ UNCHANGED result
              ELSE /\ result' = ApplyCalls(result, done.calls)
                   /\ raised' = done.exc
                   /\ pc' = IF done.exc # "" THEN "raised"
                            ELSE "_analyze_config_files"
    /\ UNCHANGED <<callVars, featVars, before, maxSeen, lastCall, fs, config_file, technologies,
                   architecture_description, run, first>>

AnalyzeConfigFiles ==
    /\ pc = "_analyze_config_files"
    /\ LET got == get_config(config_file, config_cache,
                             <<"analyzers", "project_files">>)
       IN  /\ config_cache' = got.cache
           /\ IF got.exc # ""
              THEN /\ pc' = "raised"
                   /\ raised' = got.exc
                   /\ UNCHANGED result
              ELSE /\ pc' = "_analyze_project_files"
                   /\ result' = ApplyCalls(result,
                                    _analyze_config_files(fs, got.value))
                   /\ UNCHANGED raised
    /\ UNCHANGED <<callVars, featVars, before, maxSeen, lastCall, fs, config_file, technologies,
                   architecture_description, run, first>>

\* _analyze_project_files: the .NET, Android and iOS detectors find nothing
\* in a project of the catalogue
AnalyzeProjectFiles ==
    /\ pc = "_analyze_project_files"
    /\ LET cpp == _analyze_cpp_projects(fs)
           got == get_config(config_file, config_cache,
                             <<"analyzers", "project_files">>)
       IN  IF cpp.exc # ""
           THEN /\ result' = ApplyCalls(result, cpp.calls)
                /\ pc' = "raised"
                /\ raised' = cpp.exc
                /\ UNCHANGED config_cache
           ELSE /\ config_cache' = got.cache
                /\ IF got.exc # ""
                   THEN /\ result' = ApplyCalls(result, cpp.calls)
                        /\ pc' = "raised"
                        /\ raised' = got.exc
                   ELSE /\ result' =
                            ApplyCalls(result,
                                cpp.calls \o SpecificFileCalls(fs, got.value))
                        /\ pc' = "_enrich_technologies_from_source"
                        /\ UNCHANGED raised
    /\ UNCHANGED <<callVars, featVars, before, maxSeen, lastCall, fs, config_file, technologies,
                   architecture_description, run, first>>

EnrichTechnologies ==
    /\ pc = "_enrich_technologies_from_source"
    /\ result' = _enrich_technologies_from_source(fs, result)
    /\ pc' = "required_categories"
    /\ UNCHANGED <<callVars, featVars, before, maxSeen, lastCall, fs, config_file, config_cache,
                   raised, technologies, architecture_description, run, first>>

RequiredCategories ==
    /\ pc = "required_categories"
    /\ result' = EnsureCategories(result, required_categories)
    /\ pc' = "_convert_technologies_data"
    /\ UNCHANGED <<callVars, featVars, before, maxSeen, lastCall, fs, config_file, config_cache,
                   raised, technologies, architecture_description, run, first>>

ConvertTechnologies ==
    /\ pc = "_convert_technologies_data"
    /\ technologies' = _convert_technologies_data(result)
    /\ pc' = "_detect_architecture_description"
    /\ UNCHANGED <<callVars, featVars, result, before, maxSeen, lastCall, fs, config_file,
                   config_cache, raised, architecture_description, run, first>>

\* the metadata of the Project; analyze returns
DetectArchitecture ==
    /\ pc = "_detect_architecture_description"
    /\ architecture_description' =
            _detect_architecture_description(TreeOf(fs), technologies)
    /\ pc' = "done"
    /\ first' = IF run = 1
                THEN [technologies |-> technologies,
                      architecture_description |-> architecture_description']
                ELSE first
    /\ UNCHANGED <<callVars, featVars, result, before, maxSeen, lastCall, fs, config_file,
                   config_cache, raised, technologies, run>>

\* analyze is called again on the unchanged project, by the same process
\* (the cache is kept) or by a new one (the cache is empty again)
AnalyzeAgain ==
    /\ pc = "done"
    /\ run = 1
    /\ run' = 2
    /\ pc' = "analyze"
    /\ \E same_process \in BOOLEAN :
        config_cache' = IF same_process THEN config_cache ELSE None
    /\ UNCHANGED <<callVars, featVars, result, before, maxSeen, lastCall, fs, config_file, raised,
                   technologies, architecture_description, first>>

Next ==
    \/ DetectTechnologies
    \/ AnalyzeFileExtensions
    \/ AnalyzePackageFiles
    \/ AnalyzeConfigFiles
    \/ AnalyzeProjectFiles
    \/ EnrichTechnologies
    \/ RequiredCategories
    \/ ConvertTechnologies
    \/ DetectArchitecture
    \/ AnalyzeAgain

Spec == Init /\ [][Next]_vars

----------------------------------------------------------------------------
(* Properties of analyze().                                                *)

ConfigIs(content) ==
    config_file.status = "valid" /\ config_file.content = content

HasTechnology(category, name, importance) ==
    \E i \in 1..Len(technologies) :
        /\ technologies[i].category = category
        /\ technologies[i].name = name
        /\ technologies[i].importance = importance

\* C2: the technologies list analyze builds holds at most one Technology
\* per (category, name), names compared exactly.
C2_OnePerCategoryAndName ==
    \A i, j \in 1..Len(technologies) :
        (/\ technologies[i].category = technologies[j].category
         /\ technologies[i].name = technologies[j].name) => i = j

\* C2 witness: analyze has returned a list in which Express.js, reported by
\* the manifest (5) and by the express/ directory (4), stands once, next to
\* the library name the source scan added to the same category.
C2_Witness ==
    /\ pc = "done"
    /\ "express/" \in fs
    /\ HasTechnology("backend", "Express.js", 5)
    /\ HasTechnology("backend", "express", 3)

TablePhases ==
    {"_analyze_file_extensions", "_analyze_package_files",
     "_analyze_config_files", "_analyze_project_files",
     "_enrich_technologies_from_source", "required_categories",
     "_convert_technologies_data"}

\* C3: from the creation of the technology table up to the moment it is
\* converted to the final list, all nine categories are keys of it,
\* whatever the detectors found.
C3_NineCategoriesAreKeys ==
    pc \in TablePhases =>
        \A c \in {"language", "framework", "database", "frontend", "backend",
                  "devops", "testing", "architecture", "other"} :
            HasKey(result, c)

\* C3 witness: the table is about to be converted, one category holds
\* entries and another is empty.
C3_Witness ==
    /\ pc = "_convert_technologies_data"
    /\ Items(result, "backend") # <<>>
    /\ Items(result, "database") = <<>>
    /\ HasKey(result, "database")

C5_DetectorFailureNeverAborts ==
    ConfigIs(FullConfig) => pc # "raised"

\* C6: the only failures that leave the analysis are those of the
\* configuration: FileNotFoundError for an absent file, a JSON decode
\* error for an invalid one, KeyError for an absent key.
C6_OnlyConfigurationFailuresPropagate ==
    pc = "raised" =>
        /\ raised \in {"FileNotFoundError", "JSONDecodeError", "KeyError"}
        /\ (raised = "FileNotFoundError") = (config_file.status = "absent")
        /\ (raised = "JSONDecodeError") = (config_file.status = "invalid")
        /\ (raised = "KeyError") => config_file.status = "valid"

\* C7: a configuration with only analyzers.file_extensions and
\* analyzers.project_files is sufficient: detect_technologies completes
\* for every project.
C7_TwoTablesSuffice ==
    ConfigIs(MinimalConfig) => pc # "raised"

\* C10: a project with only a package.json declaring express and a routes/
\* directory yields backend Express.js at importance 5, a Routing
\* technology and an architecture description that mentions the
\* Express.js middleware architecture; and whenever the manifest yields
\* Express.js the description carries that hint.
C10_ExpressManifestGivesHint ==
    /\ (pc = "done" /\ fs = {"package.json:express", "routes/"}) =>
        /\ HasTechnology("backend", "Express.js", 5)
        /\ HasTechnology("backend", "Routing", 3)
        /\ "Express.js Middleware Architecture"
                \in Range(architecture_description.parts)
    /\ (pc = "done" /\ "package.json:express" \in fs
                    /\ "package.json!" \notin fs) =>
        "Express.js Middleware Architecture"
                \in Range(architecture_description.parts)

----------------------------------------------------------------------------
(* ProjectAnalyzer._detect_project_features.                               *)

FeatureTypes ==
    <<"web", "api", "cli", "database", "ai", "scraping", "testing", "auth",
      "file_processing", "async">>

web_indicators ==
    <<"flask", "django", "express", "fastapi", "router", "route",
      "templates", "views", "controllers", "app.get", "app.post", "render",
      "request", "response">>

api_indicators ==
    <<"api", "rest", "graphql", "endpoint", "controller", "route",
      "restful", "@app.route", "@api", "router", "apicontroller">>

cli_indicators ==
    <<"cli", "command", "argparse", "click", "commander", "yargs",
      "parser", "flag", "argument", "option", "argv">>

db_indicators ==
    <<"database", "db", "mongo", "sql", "postgresql", "mysql", "sqlite",
      "orm", "query", "model", "entity", "repository", "dao">>

ai_indicators ==
    <<"model", "train", "predict", "machine learning", "tensorflow",
      "pytorch", "keras", "sklearn", "ml", "ai", "neural">>

scraping_indicators ==
    <<"scrape", "crawler", "spider", "beautifulsoup", "selenium",
      "requests", "http", "html", "parse", "extract">>

testing_indicators ==
    <<"test", "spec", "assert", "expect", "should", "mock", "stub",
      "fixture">>

auth_indicators ==
    <<"auth", "login", "register", "password", "user", "token", "jwt",
      "oauth", "credential", "permission">>

file_processing_indicators ==
    <<"file", "read", "write", "open", "save", "load", "import", "export",
      "csv", "excel", "json", "yaml", "xml", "parser">>

async_indicators ==
    <<"async", "await", "promise", "coroutine", "future", "deferred",
      "callback", "worker">>

\* the indicator list the scan uses for a counter
indicators(feature_type) ==
    CASE feature_type = "web" -> web_indicators
      [] feature_type = "api" -> api_indicators
      [] feature_type = "cli" -> cli_indicators
      [] feature_type = "database" -> db_indicators
      [] feature_type = "ai" -> ai_indicators
      [] feature_type = "scraping" -> scraping_indicators
      [] feature_type = "testing" -> testing_indicators
      [] feature_type = "auth" -> auth_indicators
      [] feature_type = "file_processing" -> file_processing_indicators
      [] feature_type = "async" -> async_indicators

\* what can lie in the root of a scanned project, in the order the walk
\* lists it; content is the words of the file
FeatureCatalogue ==
    <<[name |-> "app.py", ext |-> ".py", dir |-> FALSE, size |-> 60,
       readable |-> TRUE,
       content |-> <<"flask", "route", "render", "request", "response",
                     "views", "templates">>],
      [name |-> "server.js", ext |-> ".js", dir |-> FALSE, size |-> 15,
       readable |-> TRUE, content |-> <<"Express", "express">>],
      [name |-> "index.ts", ext |-> ".ts", dir |-> FALSE, size |-> 12,
       readable |-> TRUE, content |-> <<"react", "router">>],
      [name |-> "core.py", ext |-> ".py", dir |-> FALSE, size |-> 50,
       readable |-> TRUE,
       content |-> <<"django", "fastapi", "controllers", "app.get",
                     "app.post">>],
      [name |-> "test_app.py", ext |-> ".py", dir |-> FALSE, size |-> 30,
       readable |-> TRUE,
       content |-> <<"test", "assert", "expect", "mock">>],
      [name |-> "bundle.js", ext |-> ".js", dir |-> FALSE, size |-> 200000,
       readable |-> TRUE, content |-> <<"flask", "django">>],
      [name |-> "legacy.py", ext |-> ".py", dir |-> FALSE, size |-> 40,
       readable |-> FALSE, content |-> <<>>],
      [name |-> "README.md", ext |-> ".md", dir |-> FALSE, size |-> 10,
       readable |-> TRUE, content |-> <<"flask">>],
      [name |-> "routes", ext |-> "", dir |-> TRUE, size |-> 0,
       readable |-> FALSE, content |-> <<>>],
      [name |-> "tests", ext |-> "", dir |-> TRUE, size |-> 0,
       readable |-> FALSE, content |-> <<>>]>>

\* the name under which a catalogue entry stands in the project set
EntryOf(e) == IF e.dir THEN (IF e.name = "routes" THEN "routes/" ELSE "tests/")
              ELSE e.name

MaxEntries == 4

FeatureProjects ==
    SubsetsUpTo({EntryOf(FeatureCatalogue[i]) :
                    i \in 1..Len(FeatureCatalogue)}, MaxEntries)

\* the catalogue entries of a project, in listing order
RECURSIVE Listing(_, _)
Listing(project, catalogue) ==
    IF catalogue = <<>> THEN <<>>
    ELSE IF EntryOf(Head(catalogue)) \in project
         THEN <<Head(catalogue)>> \o Listing(project, Tail(catalogue))
         ELSE Listing(project, Tail(catalogue))

\* s[:n]
Take(s, n) == IF Len(s) <= n THEN s ELSE SubSeq(s, 1, n)

SelectExt(entries) ==
    SelectSeq(entries,
        LAMBDA e : ~e.dir /\ e.ext \in {".py", ".js", ".ts", ".java",
                                         ".php", ".rb"})

\* the technologies the scan may be given
Technology(name, category, importance) ==
    [name |-> name, category |-> category, version |-> None,
     importance |-> importance]

TechnologyLists ==
    { <<>>,
      <<Technology("Flask", "framework", 4)>>,
      <<Technology("Express.js", "backend", 5),
        Technology("pytest", "testing", 3)>> }

\* directory names of the project, cut at '-', '_' and ' '
ProjectNames ==
    { <<"demo">>,
      <<"youtube", "-", "downloader">>,
      <<"file", "_", "manager">> }

\* a slip: a keyword counts as often as it stands in the content
HitPerOccurrence(indicator, content) ==
    Cardinality(Positions(Chars[indicator], content))

\* `if indicator in content: feature_counters[...] += 1`
Hit(indicator, content) ==
    IF Contains(Chars[indicator], content) THEN 1 ELSE 0

\* one `for indicator in ..._indicators` loop over a file's content
RECURSIVE CountHits(_, _)
CountHits(list, content) ==
    IF list = <<>> THEN 0
    ELSE Hit(Head(list), content) + CountHits(Tail(list), content)

\* `if any(indicator in dir_name for indicator in ...)` adds 5
DirBonus(feature_type, dir_name) ==
    IF \E i \in 1..Len(indicators(feature_type)) :
            Contains(Chars[indicators(feature_type)[i]], dir_name)
    THEN 5 ELSE 0

RECURSIVE SumDirBonus(_, _)
SumDirBonus(feature_type, dir_names) ==
    IF dir_names = <<>> THEN 0
    ELSE DirBonus(feature_type, Head(dir_names))
            + SumDirBonus(feature_type, Tail(dir_names))

\* tech_name in [...]
NameIn(tech_name, names) == \E n \in names : Chars[n] = tech_name

\* what one technology adds to a counter
TechBonus(feature_type, tech_name) ==
    CASE feature_type = "web" ->
            IF NameIn(tech_name, {"flask", "django", "express", "fastapi",
                                  "vue.js", "react", "angular"})
            THEN 10 ELSE 0
      [] feature_type = "api" ->
            IF \/ Contains(Chars["api"], tech_name)
               \/ NameIn(tech_name, {"graphql", "rest framework", "restful"})
            THEN 8 ELSE 0
      [] feature_type = "cli" ->
            IF NameIn(tech_name, {"click", "argparse", "commander", "yargs",
                                  "cobra"})
            THEN 10 ELSE 0
      [] feature_type = "database" ->
            IF \E db \in {"sql", "mongo", "postgres", "mysql", "sqlite",
                          "orm"} : Contains(Chars[db], tech_name)
            THEN 10 ELSE 0
      [] feature_type = "ai" ->
            IF NameIn(tech_name, {"tensorflow", "pytorch", "keras",
                                  "sklearn", "pandas", "numpy"})
            THEN 10 ELSE 0
      [] feature_type = "scraping" ->
            IF NameIn(tech_name, {"beautifulsoup", "selenium", "requests",
                                  "scrapy", "puppeteer"})
            THEN 10 ELSE 0
      [] feature_type = "testing" ->
            IF NameIn(tech_name, {"pytest", "jest", "mocha", "junit",
                                  "phpunit"})
            THEN 8 ELSE 0
      [] feature_type = "auth" ->
            IF NameIn(tech_name, {"jwt", "passport", "oauth", "auth0",
                                  "authlib"})
            THEN 8 ELSE 0
      [] OTHER -> 0

RECURSIVE SumTechBonus(_, _)
SumTechBonus(feature_type, techs) ==
    IF techs = <<>> THEN 0
    ELSE TechBonus(feature_type, lower(Chars[Head(techs).name]))
            + SumTechBonus(feature_type, Tail(techs))

\* feature_descriptions: the name of the feature of a counter, in words
feature_descriptions(feature_type) ==
    CASE feature_type = "web" -> <<"Web", "Application">>
      [] feature_type = "api" -> <<"API">>
      [] feature_type = "cli" -> <<"Command", "Line", "Interface">>
      [] feature_type = "database" -> <<"Database", "Operations">>
      [] feature_type = "ai" -> <<"Machine", "Learning/AI">>
      [] feature_type = "scraping" -> <<"Web", "Scraping">>
      [] feature_type = "testing" -> <<"Testing">>
      [] feature_type = "auth" -> <<"Authentication", "and", "Authorization">>
      [] feature_type = "file_processing" -> <<"File", "Processing">>
      [] feature_type = "async" -> <<"Asynchronous", "Processing">>

\* a slip: one threshold for every counter
threshold_of_five(feature_type) == 5

threshold(feature_type) ==
    IF feature_type \in {"web", "cli", "api"} THEN 8 ELSE 5

priority(counter) ==
    IF counter >= 15 THEN 5 ELSE (IF counter >= 10 THEN 4 ELSE 3)

Feature(name, category, prio) ==
    [name |-> name, category |-> category, priority |-> prio]

\* `for feature_type, counter in feature_counters.items()`
RECURSIVE CounterFeatures(_, _)
CounterFeatures(counters, types) ==
    IF types = <<>> THEN <<>>
    ELSE LET feature_type == Head(types)
             counter == counters[feature_type]
             rest == CounterFeatures(counters, Tail(types))
         IN  IF counter >= threshold(feature_type)
             THEN <<Feature(feature_descriptions(feature_type), feature_type,
                            priority(counter))>> \o rest
             ELSE rest

\* the characters of the directory name
RECURSIVE Concat(_)
Concat(tokens) ==
    IF tokens = <<>> THEN <<>> ELSE Chars[Head(tokens)] \o Concat(Tail(tokens))

\* project_name_lower.replace('-', ' ').replace('_', ' ').split()
split(tokens) ==
    SelectSeq([i \in 1..Len(tokens) |-> Lower(tokens[i])],
              LAMBDA t : t \notin {"-", "_", " "})

\* str.capitalize()
capitalize(word) ==
    CASE word = "demo" -> "Demo"
      [] word = "youtube" -> "Youtube"
      [] word = "file" -> "File"
      [] OTHER -> word

\* a generic feature for a name of any number of words
NameFeaturesAnyWords(name, found) ==
    LET project_name_lower == lower(Concat(name))
        download ==
            IF \/ Contains(Chars["download"], project_name_lower)
               \/ Contains(Chars["downloader"], project_name_lower)
            THEN <<Feature(<<"Content", "Download">>, "download", 5)>>
            ELSE <<>>
        youtube ==
            IF Contains(Chars["youtube"], project_name_lower)
            THEN <<Feature(<<"YouTube", "Integration">>, "integration", 5)>>
            ELSE <<>>
        named == found \o download \o youtube
        words == split(name)
    IN  IF named # <<>> THEN named
        ELSE IF Len(words) > 0
             THEN <<Feature(<<capitalize(words[1])>> \o Tail(words),
                            "general", 3)>>
             ELSE <<>>

\* the features the directory name adds to those of the counters
NameFeatures(name, found) ==
    LET project_name_lower == lower(Concat(name))
        download ==
            IF \/ Contains(Chars["download"], project_name_lower)
               \/ Contains(Chars["downloader"], project_name_lower)
            THEN <<Feature(<<"Content", "Download">>, "download", 5)>>
            ELSE <<>>
        youtube ==
            IF Contains(Chars["youtube"], project_name_lower)
            THEN <<Feature(<<"YouTube", "Integration">>, "integration", 5)>>
            ELSE <<>>
        named == found \o download \o youtube
        words == split(name)
    IN  IF named # <<>> THEN named
        ELSE IF Len(words) > 1
             THEN <<Feature(<<capitalize(words[1])>> \o Tail(words),
                            "general", 3)>>
             ELSE <<>>

\* _detect_project_features is called with a project and its technologies
FeatInit ==
    /\ result = <<>>
    /\ before = <<>>
    /\ maxSeen = [p \in RegPairs |-> 0]
    /\ lastCall = NoCall
    /\ pc = "idle"
    /\ fs \in FeatureProjects
    /\ config_file = [status |-> "absent"]
    /\ config_cache = None
    /\ raised = ""
    /\ technologies \in TechnologyLists
    /\ architecture_description = NoDescription
    /\ run = 1
    /\ first = NoProject
    /\ project_name \in ProjectNames
    /\ source_files = <<>>
    /\ project_dirs = <<>>
    /\ feature_counters = <<>>
    /\ features = <<>>
    /\ fpc = "_detect_project_features"
    /\ next_file = 1
    /\ lastScan = NoScan
    /\ CallIdle

featFixed ==
    <<callVars, regVars, pc, fs, config_file, config_cache, raised, technologies,
      architecture_description, run, first, project_name>>

\* the listing, the walk for source files and the counters at zero
CollectSourceFiles ==
    /\ fpc = "_detect_project_features"
    /\ LET entries == Listing(fs, FeatureCatalogue)
       IN  /\ project_dirs' =
                [i \in 1..Len(entries) |-> lower(Chars[entries[i].name])]
           /\ source_files' = Take(SelectExt(entries), 50)
    /\ feature_counters' = [t \in Range(FeatureTypes) |-> 0]
    /\ fpc' = "scan"
    /\ UNCHANGED <<featFixed, features, next_file, lastScan>>

\* one turn of `for file_path in source_files`
ScanFile ==
    /\ fpc = "scan"
    /\ next_file <= Len(source_files)
    /\ LET file == source_files[next_file]
           read == file.size <= 100000 /\ file.readable
           content == lower(Join(file.content))
           delta == [t \in Range(FeatureTypes) |->
                        IF read THEN CountHits(indicators(t), content)
                        ELSE 0]
       IN  /\ feature_counters' =
                [t \in Range(FeatureTypes) |-> feature_counters[t] + delta[t]]
           /\ lastScan' = [file |-> file.name, read |-> read,
                            content |-> content, delta |-> delta]
    /\ next_file' = next_file + 1
    /\ UNCHANGED <<featFixed, source_files, project_dirs, features, fpc>>

\* `for dir_name in project_dirs`
DirectoryBonus ==
    /\ fpc = "scan"
    /\ next_file > Len(source_files)
    /\ feature_counters' =
            [t \in Range(FeatureTypes) |->
                feature_counters[t] + SumDirBonus(t, project_dirs)]
    /\ fpc' = "technologies"
    /\ UNCHANGED <<featFixed, source_files, project_dirs, features, next_file,
                   lastScan>>

\* `for tech in technologies`
TechnologyBonus ==
    /\ fpc = "technologies"
    /\ feature_counters' =
            [t \in Range(FeatureTypes) |->
                feature_counters[t] + SumTechBonus(t, technologies)]
    /\ fpc' = "features"
    /\ UNCHANGED <<featFixed, source_files, project_dirs, features, next_file,
                   lastScan>>

\* the features of the counters that reach their threshold
EmitFeatures ==
    /\ fpc = "features"
    /\ features' = CounterFeatures(feature_counters, FeatureTypes)
    /\ fpc' = "name"
    /\ UNCHANGED <<featFixed, source_files, project_dirs, feature_counters,
                   next_file, lastScan>>

\* the features of the directory name, and the return
ReturnFeatures ==
    /\ fpc = "name"
    /\ features' = NameFeatures(project_name, features)
    /\ fpc' = "done"
    /\ UNCHANGED <<featFixed, source_files, project_dirs, feature_counters,
                   next_file, lastScan>>

FeatNext ==
    \/ CollectSourceFiles
    \/ ScanFile
    \/ DirectoryBonus
    \/ TechnologyBonus
    \/ EmitFeatures
    \/ ReturnFeatures

SpecFeatures == FeatInit /\ [][FeatNext]_vars

----------------------------------------------------------------------------
(* Properties of _detect_project_features.                                 *)

FeaturesOf(feature_type) ==
    {i \in 1..Len(features) : features[i].category = feature_type}

\* C8: once the counters are final, a counter's feature is in the list
\* exactly when the counter is >= 8 (web, cli, api) or >= 5 (the other
\* seven), it is there once, and its priority is 5 from 15 on, 4 from 10
\* to 14, 3 below; a web counter of 7 gives no feature, 8 priority 3,
\* 10 priority 4, 15 priority 5.
C8_FeatureThresholds ==
    fpc \in {"name", "done"} =>
        /\ \A t \in {"web", "cli", "api"} :
            (FeaturesOf(t) # {}) <=> (feature_counters[t] >= 8)
        /\ \A t \in {"database", "ai", "scraping", "testing", "auth",
                     "file_processing", "async"} :
            (FeaturesOf(t) # {}) <=> (feature_counters[t] >= 5)
        /\ \A t \in Range(FeatureTypes) :
            /\ Cardinality(FeaturesOf(t)) <= 1
            /\ \A i \in FeaturesOf(t) :
                /\ (feature_counters[t] >= 15) => features[i].priority = 5
                /\ (feature_counters[t] >= 10 /\ feature_counters[t] < 15)
                        => features[i].priority = 4
                /\ (feature_counters[t] < 10) => features[i].priority = 3
        /\ (feature_counters["web"] = 7) => FeaturesOf("web") = {}
        /\ (feature_counters["web"] \in {8, 10, 15}) =>
                \E i \in FeaturesOf("web") :
                    /\ features[i].name = <<"Web", "Application">>
                    /\ features[i].priority =
                        (CASE feature_counters["web"] = 8 -> 3
                           [] feature_counters["web"] = 10 -> 4
                           [] feature_counters["web"] = 15 -> 5)

\* C8 witness: the scan has returned with a web counter of exactly 8 made
\* of keyword hits only, its feature at priority 3, and an api counter
\* below its threshold without a feature.
C8_Witness ==
    /\ fpc = "done"
    /\ technologies = <<>>
    /\ feature_counters["web"] = 8
    /\ \E i \in FeaturesOf("web") : features[i].priority = 3
    /\ feature_counters["api"] \in 1..7
    /\ FeaturesOf("api") = {}

RECURSIVE SumOccurrences(_, _)
SumOccurrences(list, content) ==
    IF list = <<>> THEN 0
    ELSE Cardinality(Positions(Chars[Head(list)], content))
            + SumOccurrences(Tail(list), content)

----------------------------------------------------------------------------
(* Functions applied on their own: `call` names the function, `arg` is     *)
(* what it is given and `ret` what it returns.                             *)

\* analyze and the feature scan are not running
OthersIdle ==
    /\ result = <<>>
    /\ before = <<>>
    /\ maxSeen = [p \in RegPairs |-> 0]
    /\ lastCall = NoCall
    /\ pc = "idle"
    /\ fs = {}
    /\ config_file = [status |-> "absent"]
    /\ config_cache = None
    /\ raised = ""
    /\ technologies = <<>>
    /\ architecture_description = NoDescription
    /\ run = 1
    /\ first = NoProject
    /\ FeaturesIdle

Calling(fn) == [fn |-> fn, done |-> FALSE]

Returned(fn) == [fn |-> fn, done |-> TRUE]

notCall == <<regVars, runVars, featVars>>

----------------------------------------------------------------------------
(* _detect_architecture_description on directory layouts.                  *)

MaxArchAtoms == 3

\* the directories a layout is made of
ArchAtoms ==
    {"models", "Views", "controllers", "viewmodels", "presenters", "domain",
     "domain/entities", "application", "infrastructure", "data",
     "services/2", "services/3", "Services/3", "repositories",
     "models/user_factory.py"}

\* the nodes of an atom, below the directory that is scanned
AtomNodes(atom) ==
    CASE atom = "domain/entities" ->
            {Node(<<"domain">>, TRUE), Node(<<"domain", "entities">>, TRUE)}
      [] atom = "services/2" ->
            {Node(<<"services">>, TRUE), Node(<<"services", "a">>, TRUE),
             Node(<<"services", "b">>, TRUE)}
      [] atom = "services/3" ->
            {Node(<<"services">>, TRUE), Node(<<"services", "a">>, TRUE),
             Node(<<"services", "b">>, TRUE), Node(<<"services", "c">>, TRUE)}
      [] atom = "Services/3" ->
            {Node(<<"Services">>, TRUE), Node(<<"Services", "a">>, TRUE),
             Node(<<"Services", "b">>, TRUE), Node(<<"Services", "c">>, TRUE)}
      [] atom = "models/user_factory.py" ->
            {Node(<<"models">>, TRUE),
             Node(<<"models", "user_factory.py">>, FALSE)}
      [] OTHER -> {Node(<<atom>>, TRUE)}

\* a layout: with or without src/, the atoms below the scanned directory,
\* and empty directories of the root
ArchLayouts ==
    [src : BOOLEAN,
     atoms : SubsetsUpTo(ArchAtoms, MaxArchAtoms),
     root : SUBSET {"services", "domain"}]

LayoutTree(layout) ==
    LET base == IF layout.src THEN <<"src">> ELSE <<>>
        below == UNION {AtomNodes(a) : a \in layout.atoms}
    IN  (IF layout.src THEN {Node(<<"src">>, TRUE)} ELSE {})
        \cup {Node(base \o nd.path, nd.dir) : nd \in below}
        \cup {Node(<<r>>, TRUE) : r \in layout.root}

ArchTechnologies ==
    { <<>>,
      <<Technology("Flask", "framework", 4)>>,
      <<Technology("Microservices", "architecture", 3)>> }

ArchInit ==
    /\ OthersIdle
    /\ call = Calling("_detect_architecture_description")
    /\ arg \in {[tree |-> LayoutTree(l), technologies |-> t] :
                    l \in ArchLayouts, t \in ArchTechnologies}
    /\ ret = <<>>

DescribeArchitecture ==
    /\ call = Calling("_detect_architecture_description")
    /\ ret' = _detect_architecture_description(arg.tree, arg.technologies)
    /\ call' = Returned("_detect_architecture_description")
    /\ UNCHANGED <<notCall, arg>>

SpecArchitecture == ArchInit /\ [][DescribeArchitecture]_vars

\* the directory whose children are the directory-name set
ScannedRoot(tree) ==
    IF Node(<<"src">>, TRUE) \in tree THEN <<"src">> ELSE <<>>

\* the names of the directories at depth 1 below it, as they are written
DirSet(tree) ==
    {nd.path[Len(nd.path)] : nd \in
        {n \in tree : n.dir /\ n.path = Append(ScannedRoot(tree),
                                                n.path[Len(n.path)])}}

ChildrenOf(tree, path) ==
    {nd \in tree : Len(nd.path) = Len(path) + 1 /\ IsPrefix(path, nd.path)}

\* the rule of a pattern, on the names as they are written
RuleHolds(pattern, tree) ==
    LET set == DirSet(tree)
        root == ScannedRoot(tree)
    IN  CASE pattern = "MVC (Model-View-Controller)" ->
                {"models", "views", "controllers"} \subseteq set
          [] pattern = "MVVM (Model-View-ViewModel)" ->
                {"models", "views", "viewmodels"} \subseteq set
          [] pattern = "MVP (Model-View-Presenter)" ->
                {"models", "views", "presenters"} \subseteq set
          [] pattern = "Clean Architecture" ->
                /\ set \cap {"domain", "entities"} # {}
                /\ set \cap {"application", "usecases", "use_cases"} # {}
                /\ set \cap {"infrastructure", "frameworks"} # {}
          [] pattern = "Layered Architecture" ->
                Cardinality(set \cap {"data", "domain", "application",
                                      "presentation", "ui", "persistence"})
                    >= 2
          [] pattern = "Service-Oriented Architecture" ->
                /\ "services" \in set
                /\ Cardinality({nd \in ChildrenOf(tree,
                                    Append(root, "services")) : nd.dir}) > 2
          [] pattern = "Repository Pattern" -> "repositories" \in set
          [] pattern = "Factory Pattern" ->
                \E d \in set : \E nd \in tree :
                    /\ ~nd.dir
                    /\ IsPrefix(Append(root, d), nd.path)
                    /\ Contains(Chars["factory"],
                                Chars[nd.path[Len(nd.path)]])
          [] pattern = "Domain-Driven Design (DDD)" ->
                /\ "domain" \in set
                /\ \E nd \in ChildrenOf(tree, Append(root, "domain")) :
                        nd.path[Len(nd.path)] \in
                            {"aggregates", "entities", "value_objects",
                             "services"}

ArchPatterns ==
    {"MVC (Model-View-Controller)", "MVVM (Model-View-ViewModel)",
     "MVP (Model-View-Presenter)", "Clean Architecture",
     "Layered Architecture", "Service-Oriented Architecture",
     "Repository Pattern", "Factory Pattern", "Domain-Driven Design (DDD)"}

\* C11: the description names every pattern whose rule holds on the
\* directory names gathered under src/ when it exists, else under the
\* root, whichever other rules hold; a src/ with models, views and
\* controllers gives MVC.
C11_EveryHoldingPatternNamed ==
    call = Returned("_detect_architecture_description") =>
        \A pattern \in ArchPatterns :
            RuleHolds(pattern, arg.tree) =>
                /\ ret.kind = "patterns"
                /\ pattern \in Range(ret.parts)

----------------------------------------------------------------------------
(* _parse_requirements_txt on requirements files of a few lines.           *)

MaxLines == 3

RequirementLines ==
    {"flask==2.0.1", "requests>=2.0", "", "# comment", "  numpy  ",
     "django<=3.2", "pytest~=7.0", "a>=1,==2", "  # note", "pkg == 1.0 ",
     "b~=1,<=2"}

\* the sequences of at most n elements of S
RECURSIVE SeqsUpTo(_, _)
SeqsUpTo(S, n) ==
    IF n = 0 THEN {<<>>}
    ELSE LET shorter == SeqsUpTo(S, n - 1)
         IN  shorter \cup {Append(q, e) : q \in shorter, e \in S}

\* the text of a file with these lines
RECURSIVE JoinLines(_)
JoinLines(lines) ==
    IF lines = <<>> THEN <<>>
    ELSE Chars[Head(lines)] \o <<"\n">> \o JoinLines(Tail(lines))

RequirementsInit ==
    /\ OthersIdle
    /\ call = Calling("_parse_requirements_txt")
    /\ arg \in {[lines |-> l, readable |-> r, content |-> JoinLines(l)] :
                    l \in SeqsUpTo(RequirementLines, MaxLines),
                    r \in BOOLEAN}
    /\ ret = <<>>

ParseRequirements ==
    /\ call = Calling("_parse_requirements_txt")
    /\ ret' = _parse_requirements_txt(arg)
    /\ call' = Returned("_parse_requirements_txt")
    /\ UNCHANGED <<notCall, arg>>

SpecRequirements == RequirementsInit /\ [][ParseRequirements]_vars

\* what the claim gives for each line: nothing, or a name and a version
ExpectedPackage(line) ==
    CASE line = "flask==2.0.1" -> <<[name |-> "flask", version |-> "2.0.1"]>>
      [] line = "requests>=2.0" -> <<[name |-> "requests", version |-> "2.0"]>>
      [] line = "" -> <<>>
      [] line = "# comment" -> <<>>
      [] line = "  numpy  " -> <<[name |-> "numpy", version |-> ""]>>
      [] line = "django<=3.2" -> <<[name |-> "django", version |-> "3.2"]>>
      [] line = "pytest~=7.0" -> <<[name |-> "pytest", version |-> "7.0"]>>
      [] line = "a>=1,==2" -> <<[name |-> "a>=1,", version |-> "2"]>>
      [] line = "  # note" -> <<>>
      [] line = "pkg == 1.0 " -> <<[name |-> "pkg", version |-> "1.0"]>>
      [] line = "b~=1,<=2" -> <<[name |-> "b~=1,", version |-> "2"]>>

RECURSIVE ExpectedPackages(_)
ExpectedPackages(lines) ==
    IF lines = <<>> THEN <<>>
    ELSE ExpectedPackage(Head(lines)) \o ExpectedPackages(Tail(lines))

\* C12: _parse_requirements_txt gives one package per line that is neither
\* blank nor a comment, in the order of the lines, and none for the
\* others; the line is split once on the first of '==', '>=', '<=', '~='
\* it holds, tested in that order, into the trimmed name and version, and a
\* line without operator is a bare name with empty version.
C12_OnePackagePerRequirementLine ==
    (call = Returned("_parse_requirements_txt") /\ arg.readable) =>
        LET expected == ExpectedPackages(arg.lines)
        IN  /\ Len(ret) = Len(expected)
            /\ \A i \in 1..Len(expected) :
                /\ ret[i].name = Chars[expected[i].name]
                /\ ret[i].version = Chars[expected[i].version]

\* C12 witness: a file with a comment, a line that holds '>=' before '=='
\* and a blank line has been parsed into one package.
C12_Witness ==
    /\ call = Returned("_parse_requirements_txt")
    /\ arg.readable
    /\ arg.lines = <<"# comment", "a>=1,==2", "">>
    /\ Len(ret) = 1
    /\ ret[1].version = <<"2">>

----------------------------------------------------------------------------
(* StructureAnalyzer: the statistics walk.                                 *)
(*                                                                         *)
(* os.walk hands _collect_file_stats the files of the project one after    *)
(* the other; `arg` holds them in that order with the number of files      *)
(* already processed, and `ret` is the stats dictionary. A file has a      *)
(* name, a size and whether os.path.getsize succeeds on it; its relative   *)
(* path is its position in the walk, which no other file shares.           *)

ignored_dirs ==
    <<".git", ".github", ".vscode", ".idea", ".vs",
      "node_modules", "__pycache__", "venv", "env",
      "dist", "build", "target", "bin", "obj",
      ".pytest_cache", ".coverage", ".next", "coverage",
      ".nuget", "packages", ".gradle">>

ignored_files ==
    <<".gitignore", ".gitattributes", ".DS_Store", "Thumbs.db",
      ".env", ".env.local", ".env.development", ".env.test",
      ".env.production",
      "*.pyc", "*.pyo", "*.pyd", "*.so", "*.dll", "*.exe", "*.obj", "*.o",
      "*.a", "*.lib", "*.egg", "*.egg-info", "*.whl", "*.pdb", "*.cache",
      "*.class", "*.jar", "*.war", "*.ear", "*.zip", "*.tar.gz", "*.rar">>

\* text.endswith(suffix)
endswith(text, suffix) ==
    /\ Len(suffix) <= Len(text)
    /\ SubSeq(text, Len(text) - Len(suffix) + 1, Len(text)) = suffix

\* item in patterns or any(item.endswith(pattern[1:]) for pattern in patterns
\* if pattern.startswith('*'))
ignored(item, patterns) ==
    \E i \in 1..Len(patterns) :
        \/ item = patterns[i]
        \/ /\ Head(Chars[patterns[i]]) = "*"
           /\ endswith(Chars[item], Tail(Chars[patterns[i]]))

\* the second component of os.path.splitext(file): from the last dot on,
\* unless only dots come before it
splitext(file) ==
    LET text == Chars[file]
        dots == {i \in 1..Len(text) : text[i] = "."}
        last == CHOOSE i \in dots : \A j \in dots : j <= i
    IN  IF dots # {} /\ \E j \in 1..(last - 1) : text[j] # "."
        THEN SubSeq(text, last, Len(text))
        ELSE <<>>

\* the sort forgotten: the list in the order of the appends
sorted_by_append(entries) == entries

\* a sort that puts an entry before the entries of its size
RECURSIVE sorted_newest_first(_)
sorted_newest_first(entries) ==
    IF entries = <<>> THEN <<>>
    ELSE LET n == Len(entries)
             x == entries[n]
             rest == sorted_newest_first(SubSeq(entries, 1, n - 1))
             k == Cardinality({i \in 1..Len(rest) : rest[i].size > x.size})
         IN  SubSeq(rest, 1, k) \o <<x>> \o SubSeq(rest, k + 1, Len(rest))

\* sorted(entries, key=lambda x: x["size"], reverse=True): the sort is
\* stable, entries of the same size keep their order
RECURSIVE sorted_by_size(_)
sorted_by_size(entries) ==
    IF entries = <<>> THEN <<>>
    ELSE LET n == Len(entries)
             x == entries[n]
             rest == sorted_by_size(SubSeq(entries, 1, n - 1))
             k == Cardinality({i \in 1..Len(rest) : rest[i].size >= x.size})
         IN  SubSeq(rest, 1, k) \o <<x>> \o SubSeq(rest, k + 1, Len(rest))

EmptyStats == [total_files |-> 0, file_types |-> <<>>, largest_files |-> <<>>]

\* the body of `for file in files` for the file met at position `path`
collect_file(stats, file, path) ==
    IF ignored(file.name, ignored_files) THEN stats
    ELSE LET ext == lower(splitext(file.name))
             counted ==
                 [stats EXCEPT
                     !.total_files = @ + 1,
                     !.file_types = IF ext # <<>> THEN Bump(@, ext, 1) ELSE @]
             largest == stats.largest_files
         IN  IF ~file.measurable THEN counted      \* except: pass
             ELSE IF \/ Len(largest) < 5
                     \/ file.size > largest[Len(largest)].size
             THEN [counted EXCEPT !.largest_files =
                      Take(sorted_by_size(
                               Append(largest,
                                      [path |-> path, size |-> file.size])),
                           5)]
             ELSE counted

MaxWalk == 6

WalkedFiles ==
    {[name |-> "a.py", size |-> 1, measurable |-> TRUE],
     [name |-> "b.PY", size |-> 2, measurable |-> TRUE],
     [name |-> "Makefile", size |-> 3, measurable |-> TRUE],
     [name |-> "c.pyc", size |-> 3, measurable |-> TRUE],
     [name |-> ".gitignore", size |-> 2, measurable |-> TRUE],
     [name |-> "d.py", size |-> 3, measurable |-> FALSE]}

StatsInit ==
    /\ OthersIdle
    /\ call = Calling("_collect_file_stats")
    /\ arg \in {[files |-> f, processed |-> 0] :
                    f \in SeqsUpTo(WalkedFiles, MaxWalk)}
    /\ ret = EmptyStats

\* one turn of the loop over the files
CollectFile ==
    /\ call = Calling("_collect_file_stats")
    /\ arg.processed < Len(arg.files)
    /\ ret' = collect_file(ret, arg.files[arg.processed + 1],
                           arg.processed + 1)
    /\ arg' = [arg EXCEPT !.processed = @ + 1]
    /\ UNCHANGED <<notCall, call>>

\* return stats
ReturnStats ==
    /\ call = Calling("_collect_file_stats")
    /\ arg.processed = Len(arg.files)
    /\ call' = Returned("_collect_file_stats")
    /\ UNCHANGED <<notCall, arg, ret>>

SpecStats == StatsInit /\ [][CollectFile \/ ReturnStats]_vars

\* C13: after every file of the statistics walk, and so in the stats
\* returned, largest_files has at most 5 entries and their sizes never
\* increase from one entry to the next.
C13_AtMostFiveNonIncreasing ==
    (call.fn = "_collect_file_stats") =>
        LET largest == ret.largest_files
        IN  /\ Len(largest) <= 5
            /\ \A i \in 1..Len(largest) : \A j \in 1..Len(largest) :
                   i < j => largest[i].size >= largest[j].size

\* C13 witness: six measured files of three sizes have been processed, the
\* list is full and the first file, the smallest, has left it.
C13_Witness ==
    /\ call = Returned("_collect_file_stats")
    /\ ret.total_files = 6
    /\ [i \in 1..6 |-> arg.files[i].size] = <<1, 2, 3, 2, 2, 3>>
    /\ \A i \in 1..6 : arg.files[i].measurable
    /\ [i \in 1..5 |-> ret.largest_files[i].path] = <<3, 6, 2, 4, 5>>

\* C14 as stated: no two entries of the final largest_files have the same
\* size.
C14_NoTwoEntriesSameSize ==
    (call = Returned("_collect_file_stats")) =>
        \A i \in 1..Len(ret.largest_files) :
            \A j \in 1..Len(ret.largest_files) :
                i # j => ret.largest_files[i].size # ret.largest_files[j].size

\* C14: the final largest_files is size-descending but not strictly: of two
\* entries the earlier one is larger, or they have the same size and the
\* earlier one was met first by the walk.
C14_TiesInEncounterOrder ==
    (call = Returned("_collect_file_stats")) =>
        \A i \in 1..Len(ret.largest_files) :
            \A j \in 1..Len(ret.largest_files) :
                i < j =>
                    \/ ret.largest_files[i].size > ret.largest_files[j].size
                    \/ /\ ret.largest_files[i].size = ret.largest_files[j].size
                       /\ ret.largest_files[i].path < ret.largest_files[j].path

\* C14 witness: a walk of two files of the same size has returned both, in
\* the order it met them.
C14_Witness ==
    /\ call = Returned("_collect_file_stats")
    /\ Len(arg.files) = 2
    /\ Len(ret.largest_files) = 2
    /\ ret.largest_files[1].size = ret.largest_files[2].size
    /\ ret.largest_files[1].path = 1

----------------------------------------------------------------------------
(* StructureAnalyzer: the structure tree.                                  *)
(*                                                                         *)
(* _build_tree is applied to a project made of a chain of directories      *)
(* pkg/pkg/.../pkg with a few other entries at some levels of the chain; a *)
(* file system is its tree and the directories os.listdir fails on.        *)

\* the names of the chain projects in the order of sorted()
NameOrder == <<"c.pyc", "core", "main.py", "node_modules", "pkg">>

\* sorted(names), the names of one directory
sorted(names) == SelectSeq(NameOrder, LAMBDA n : n \in Range(names))

\* max_depth: int = 10
max_depth_default == 10

\* the cap one level too deep
at_cap_below(max_depth) == max_depth < 0

\* if max_depth <= 0
at_cap(max_depth) == max_depth <= 0

\* os.path.basename(path), the root being the directory "project"
basename(path) == IF path = <<>> THEN "project" ELSE path[Len(path)]

RECURSIVE _build_tree(_, _, _)
_build_tree(files, path, max_depth) ==
    IF at_cap(max_depth)
    THEN [name |-> basename(path), type |-> "directory",
          children |-> <<[name |-> "...", type |-> "ellipsis"]>>]
    ELSE IF path \in files.denied
    THEN [name |-> basename(path), type |-> "directory",
          children |-> <<>>, error |-> "PermissionError"]
    ELSE LET items == listdir(files.tree, path)
             directories ==
                 sorted(SelectSeq(items, LAMBDA item :
                     /\ os_path_isdir(files.tree, Append(path, item))
                     /\ ~ignored(item, ignored_dirs)))
             file_names ==
                 sorted(SelectSeq(items, LAMBDA item :
                     /\ ~os_path_isdir(files.tree, Append(path, item))
                     /\ ~ignored(item, ignored_files)))
         IN  [name |-> basename(path), type |-> "directory",
              children |->
                  [i \in 1..Len(directories) |->
                      _build_tree(files, Append(path, directories[i]),
                                  max_depth - 1)]
                  \o [i \in 1..Len(file_names) |->
                         [name |-> file_names[i], type |-> "file"]]]

MaxChain == 12

MaxExtras == 2

\* the path of the chain's directory at a level, the root being level 0
Chain(level) == [i \in 1..level |-> "pkg"]

\* what a level of the chain may hold besides the next directory of the
\* chain, "denied" standing for a listdir that fails
Extras ==
    (0..MaxChain) \X {"main.py", "c.pyc", "core", "node_modules", "denied"}

ChainProjects ==
    {[depth |-> d, extras |-> e] :
        d \in 0..MaxChain,
        e \in SubsetsUpTo(Extras, MaxExtras)}

ChainFiles(project) ==
    LET present == {e \in project.extras : e[1] <= project.depth}
    IN  [tree |->
            {Node(Chain(l), TRUE) : l \in 1..project.depth}
            \cup {Node(Append(Chain(e[1]), e[2]),
                       e[2] \in {"core", "node_modules"}) :
                    e \in {x \in present : x[2] # "denied"}},
         denied |-> {Chain(e[1]) : e \in {x \in present : x[2] = "denied"}}]

TreeInit ==
    /\ OthersIdle
    /\ call = Calling("_build_tree")
    /\ arg \in ChainProjects
    /\ ret = <<>>

BuildTree ==
    /\ call = Calling("_build_tree")
    /\ ret' = _build_tree(ChainFiles(arg), <<>>, max_depth_default)
    /\ call' = Returned("_build_tree")
    /\ UNCHANGED <<notCall, arg>>

SpecTree == TreeInit /\ [][BuildTree]_vars

\* the nodes of a rendered tree, each with its depth below the node given
RECURSIVE Rendered(_, _)
Rendered(node, depth) ==
    {[depth |-> depth, node |-> node]}
    \cup IF node.type = "directory"
         THEN UNION {Rendered(node.children[i], depth + 1) :
                        i \in 1..Len(node.children)}
         ELSE {}

\* C15: when the project is a chain of directories nested 11 levels deep or
\* more, each of the first ten listable, the directory at depth 10 is
\* rendered with one ellipsis leaf as its only child, nothing deeper is
\* rendered, and no directory above depth 10 holds an ellipsis leaf.
C15_EllipsisAtDepthTen ==
    (/\ call = Returned("_build_tree")
     /\ arg.depth >= 11
     /\ \A e \in arg.extras : e[2] = "denied" => e[1] >= 10) =>
        LET nodes == Rendered(ret, 0)
            boundary == {n \in nodes : n.depth = 10 /\ n.node.name = "pkg"
                                        /\ n.node.type = "directory"}
        IN  /\ Cardinality(boundary) = 1
            /\ \A n \in boundary :
                   n.node.children = <<[name |-> "...", type |-> "ellipsis"]>>
            /\ \A n \in nodes : n.depth <= 11
            /\ \A n \in nodes : n.node.type = "ellipsis" => n.depth = 11
            /\ \A n \in nodes : n.depth = 11 => n.node.type = "ellipsis"

\* C15 witness: a chain 12 levels deep with a file in the directory at
\* depth 10 and a file in the one at depth 9 has been rendered; the file at
\* depth 9 is in the tree.
C15_Witness ==
    /\ call = Returned("_build_tree")
    /\ arg.depth = 12
    /\ arg.extras = {<<10, "main.py">>, <<9, "main.py">>}
    /\ [depth |-> 10, node |-> [name |-> "main.py", type |-> "file"]]
           \in Rendered(ret, 0)

----------------------------------------------------------------------------
(* ProjectAnalyzer: the name of the project.                               *)
(*                                                                         *)
(* A manifest is absent, unreadable (read_file raises) or read; of a read  *)
(* manifest the model keeps what the provider looks for in it: the parsed  *)
(* JSON of package.json, and for the others the group matched by the       *)
(* provider's regular expression, "" when it matches nothing.              *)

\* text.replace(old, new)
RECURSIVE replace(_, _, _)
replace(text, old, new) ==
    IF Len(text) < Len(old) \/ old = <<>> THEN text
    ELSE IF SubSeq(text, 1, Len(old)) = old
    THEN new \o replace(SubSeq(text, Len(old) + 1, Len(text)), old, new)
    ELSE <<Head(text)>> \o replace(Tail(text), old, new)

\* os.path.basename(os.path.normpath(project_path))
DirectoryName == "my-project_dir"

\* a provider that found nothing
Nothing == [found |-> FALSE, value |-> <<>>]

Found(value) == [found |-> TRUE, value |-> value]

\* json.loads(content) followed by `if key in package_data: return
\* package_data[key]`; a JSON list holding the key passes the test and
\* raises on the subscript
package_json_field(project, key) ==
    LET file == project.package_json
    IN  IF file.status = "object" /\ TableHas(file.data, key)
        THEN Found(Chars[TableGet(file.data, key)])
        ELSE Nothing

\* the providers of _detect_project_name in the order of the code
name_providers(project) ==
    LET setup == project.setup_py
        cargo == project.cargo_toml
        csproj_files == project.csproj_files
    IN  << package_json_field(project, "name"),
           IF setup.status = "read" /\ setup.name_match # ""
           THEN Found(Chars[setup.name_match]) ELSE Nothing,
           IF cargo.status = "read" /\ cargo.name_match # ""
           THEN Found(Chars[cargo.name_match]) ELSE Nothing,
           IF csproj_files # <<>> /\ csproj_files[1].status = "read"
           THEN IF csproj_files[1].assembly_name # ""
                THEN Found(Chars[csproj_files[1].assembly_name])
                ELSE Found(replace(Chars[csproj_files[1].name],
                                   Chars[".csproj"], <<>>))
           ELSE Nothing,
           Found(Chars[DirectoryName]) >>

\* the return of the last provider that finds something
last_wins(providers) ==
    providers[CHOOSE i \in 1..Len(providers) :
                 /\ providers[i].found
                 /\ \A j \in (i + 1)..Len(providers) : ~providers[j].found].value

\* the first return reached
first_return(providers) ==
    providers[CHOOSE i \in 1..Len(providers) :
                 /\ providers[i].found
                 /\ \A j \in 1..(i - 1) : ~providers[j].found].value

_detect_project_name(project) == first_return(name_providers(project))

PackageJsons ==
    {[status |-> s, data |-> <<>>] :
        s \in {"absent", "unreadable", "malformed", "list"}}
    \cup {[status |-> "object", data |-> d] :
            d \in {<<>>,
                   <<[key |-> "name", value |-> "web-app"]>>,
                   <<[key |-> "description", value |-> "A web app"]>>,
                   <<[key |-> "name", value |-> "web-app"],
                     [key |-> "description", value |-> "A web app"]>>,
                   <<[key |-> "name", value |-> ""],
                     [key |-> "description", value |-> ""]>>}}

Manifests(match) ==
    {[status |-> "absent", name_match |-> ""],
     [status |-> "unreadable", name_match |-> ""],
     [status |-> "read", name_match |-> ""],
     [status |-> "read", name_match |-> match]}

\* the .csproj files in the order os.walk meets them
CsprojLists ==
    LET app(status, assembly_name) ==
            [name |-> "App.csproj", status |-> status,
             assembly_name |-> assembly_name, description |-> ""]
        other == [name |-> "Other.Tests.csproj", status |-> "read",
                  assembly_name |-> "OtherAssembly", description |-> ""]
    IN  {<<>>,
         <<app("read", "MyAssembly")>>,
         <<app("read", "")>>,
         <<app("unreadable", "")>>,
         <<app("unreadable", ""), other>>,
         <<app("read", ""), other>>,
         <<other, app("read", "MyAssembly")>>}

NameProjects ==
    [package_json : PackageJsons,
     setup_py : Manifests("mypkg"),
     cargo_toml : Manifests("mycrate"),
     csproj_files : CsprojLists]

NameInit ==
    /\ OthersIdle
    /\ call = Calling("_detect_project_name")
    /\ arg \in NameProjects
    /\ ret = <<>>

DetectProjectName ==
    /\ call = Calling("_detect_project_name")
    /\ ret' = _detect_project_name(arg)
    /\ call' = Returned("_detect_project_name")
    /\ UNCHANGED <<notCall, arg>>

SpecName == NameInit /\ [][DetectProjectName]_vars

\* what each provider of the claim gives for a project: "" when it is
\* skipped
ClaimedNames(project) ==
    << IF /\ project.package_json.status = "object"
          /\ \E i \in 1..Len(project.package_json.data) :
                 project.package_json.data[i].key = "name"
       THEN <<"package.json",
              project.package_json.data[
                  CHOOSE i \in 1..Len(project.package_json.data) :
                      project.package_json.data[i].key = "name"].value>>
       ELSE <<"", "">>,
       IF project.setup_py.status = "read"
       THEN <<project.setup_py.name_match, project.setup_py.name_match>>
       ELSE <<"", "">>,
       IF project.cargo_toml.status = "read"
       THEN <<project.cargo_toml.name_match, project.cargo_toml.name_match>>
       ELSE <<"", "">>,
       IF project.csproj_files # <<>>
          /\ project.csproj_files[1].status = "read"
       THEN IF project.csproj_files[1].assembly_name # ""
            THEN <<"csproj", project.csproj_files[1].assembly_name>>
            ELSE <<"csproj",
                   CASE project.csproj_files[1].name = "App.csproj" -> "App"
                     [] project.csproj_files[1].name = "Other.Tests.csproj"
                            -> "Other.Tests">>
       ELSE <<"", "">>,
       <<"directory", DirectoryName>> >>

----------------------------------------------------------------------------
(* ProjectAnalyzer: the description of the project.                        *)
(*                                                                         *)
(* README.md is given by its text. Of the other files the model keeps the  *)
(* groups the providers' regular expressions match in them, "" for no      *)
(* match; the comments of the catalogue hold no leading asterisks or       *)
(* slashes, so that the re.sub calls of the providers leave them as they   *)
(* are, and every file is shorter than the 5000 characters read.           *)

\* sep.join(texts)
RECURSIVE join(_, _)
join(sep, texts) ==
    IF texts = <<>> THEN <<>>
    ELSE IF Len(texts) = 1 THEN texts[1]
    ELSE texts[1] \o sep \o join(sep, Tail(texts))

\* text.split('\n')
RECURSIVE split_lines(_)
split_lines(text) ==
    LET ends == {p \in 1..Len(text) : text[p] = "\n"}
    IN  IF ends = {} THEN <<text>>
        ELSE LET nl == CHOOSE p \in ends : \A q \in ends : p <= q
             IN  <<SubSeq(text, 1, nl - 1)>>
                     \o split_lines(SubSeq(text, nl + 1, Len(text)))

\* the ellipsis already at 200 characters
truncate_from_200(description) ==
    Take(description, 200)
        \o (IF Len(description) >= 200 THEN Chars["..."] ELSE <<>>)

\* description[:200] + ('...' if len(description) > 200 else '')
truncate(description) ==
    Take(description, 200)
        \o (IF Len(description) > 200 THEN Chars["..."] ELSE <<>>)

\* the loop over enumerate(lines) of the README provider
readme_description(readme) ==
    IF readme.status # "read" THEN Nothing
    ELSE LET lines == split_lines(readme.content)
             taken == {i \in 1..Len(lines) :
                          /\ strip(lines[i]) # <<>>
                          /\ Head(lines[i]) # "#"
                          /\ i - 1 > 0}
         IN  IF taken = {} THEN Nothing
             ELSE Found(truncate(strip(
                      lines[CHOOSE i \in taken : \A j \in taken : i <= j])))

\* re.search(...) followed by `if match: return match.group(1)`, where
\* `import re` further down the function makes re a local name: before
\* that statement has run the call raises UnboundLocalError, which the
\* provider's `except: pass` swallows
re_search(bound, group) ==
    IF bound /\ group # "" THEN Found(Chars[group]) ELSE Nothing

\* the .csproj provider, then the AssemblyInfo.cs provider
dotnet_description(project) ==
    LET csproj_files == project.csproj_files
        from_csproj ==
            IF csproj_files # <<>> /\ csproj_files[1].status = "read"
            THEN re_search(FALSE, csproj_files[1].description)
            ELSE Nothing
        from_assembly_info ==
            IF project.assembly_info.status = "read"
            THEN re_search(FALSE, project.assembly_info.description)
            ELSE Nothing
    IN  IF from_csproj.found THEN from_csproj ELSE from_assembly_info

main_files ==
    <<"main.py", "index.js", "app.py", "app.js", "Program.cs", "Main.cs",
      "App.xaml.cs", "src/main.py", "src/index.js", "src/app.py",
      "src/app.js", "src/Program.cs", "src/Main.cs">>

\* the stripped lines that are not blank
stripped_lines(lines) ==
    SelectSeq([i \in 1..Len(lines) |-> strip(lines[i])],
              LAMBDA l : l # <<>>)

\* the body of the loop over main_files for a file that exists
main_file_description(file) ==
    LET doc_text == strip(Chars[file.docstring])
        js_text == strip(Chars[file.js_comment])
        cs_text == strip(Chars[file.cs_summary])
    IN  IF file.status # "read" THEN Nothing
        ELSE IF Len(doc_text) > 10
        THEN Found(truncate(strip(split_lines(doc_text)[1])))
        ELSE IF Len(js_text) > 10
        THEN Found(truncate(strip(split_lines(js_text)[1])))
        ELSE IF Len(cs_text) > 10
        THEN Found(truncate(join(<<" ">>,
                                 stripped_lines(split_lines(cs_text)))))
        ELSE Nothing

\* the body of the loop over list_files(project_path)
source_file_description(file) ==
    LET ext == lower(splitext(file.name))
        doc_text == strip(Chars[file.docstring])
        cs_text == strip(Chars[file.cs_summary])
    IN  IF file.large \/ file.status # "read" THEN Nothing
        ELSE IF ext = Chars[".py"] /\ Len(doc_text) > 30
        THEN Found(truncate(join(<<" ">>,
                 stripped_lines(Take(split_lines(doc_text), 2)))))
        ELSE IF ext = Chars[".cs"] /\ Len(cs_text) > 10
        THEN Found(truncate(join(<<" ">>,
                                 stripped_lines(split_lines(cs_text)))))
        ELSE Nothing

\* the first of a sequence of provider results that found something
first_found(results) ==
    IF \E i \in 1..Len(results) : results[i].found
    THEN results[CHOOSE i \in 1..Len(results) :
                    /\ results[i].found
                    /\ \A j \in 1..(i - 1) : ~results[j].found]
    ELSE Nothing

\* the sentence made of the directory name and of the first modules
synthesized_description(project) ==
    LET name_words ==
            replace(replace(Chars[DirectoryName], <<"-">>, <<" ">>),
                    <<"_">>, <<" ">>)
        modules ==
            SelectSeq(project.listing, LAMBDA item :
                /\ Head(Chars[item]) # "."
                /\ item \notin {"node_modules", "venv", "dist", "build",
                                "obj", "bin", ".vs"}
                /\ ~(Len(Chars[item]) >= 2
                     /\ SubSeq(Chars[item], 1, 2) = <<"_", "_">>))
        modules_text ==
            join(Chars[", "],
                 [i \in 1..Len(Take(modules, 3)) |->
                     replace(Chars[modules[i]], <<"_">>, <<" ">>)])
    IN  IF ~project.listable THEN Nothing       \* os.listdir raises
        ELSE IF modules # <<>>
        THEN Found(Chars["A "] \o name_words
                   \o Chars[" project with modules for "] \o modules_text)
        ELSE Found(Chars["A "] \o name_words \o Chars[" project"])

\* the file of the project with a name, if it has one
FileNamed(project, name) ==
    SelectSeq(project.files, LAMBDA f : f.name = name)

_detect_project_description(project) ==
    LET mains ==
            [i \in 1..Len(main_files) |->
                IF FileNamed(project, main_files[i]) = <<>> THEN Nothing
                ELSE main_file_description(
                         FileNamed(project, main_files[i])[1])]
        sources ==
            [i \in 1..Len(project.files) |->
                source_file_description(project.files[i])]
    IN  first_return(
            << package_json_field(project, "description"),
               readme_description(project.readme),
               dotnet_description(project),
               first_found(mains),
               first_found(sources),
               synthesized_description(project),
               Found(Chars["Project without description"]) >>)

\* README.md with these lines
Readme(lines) == [status |-> "read", content |-> join(<<"\n">>, lines)]

Readmes ==
    {[status |-> "absent", content |-> <<>>],
     [status |-> "unreadable", content |-> <<>>],
     Readme(<<Chars["# Title"]>>),
     Readme(<<Chars["# Title"], <<>>, Chars["Plain text"]>>),
     Readme(<<Chars["Plain text"], Chars["  padded text  "]>>)}

CsprojDescribed ==
    {<<>>,
     <<[name |-> "App.csproj", status |-> "read",
        assembly_name |-> "", description |-> "From csproj"]>>,
     <<[name |-> "App.csproj", status |-> "read",
        assembly_name |-> "", description |-> ""]>>,
     <<[name |-> "App.csproj", status |-> "unreadable",
        assembly_name |-> "", description |-> ""]>>}

AssemblyInfos ==
    {[status |-> "absent", description |-> ""],
     [status |-> "read", description |-> ""],
     [status |-> "read", description |-> "From assembly info"]}

\* the files of the root directory in the order of os.listdir
RootFileLists ==
    LET file(name, status, large, docstring, js_comment, cs_summary) ==
            [name |-> name, status |-> status, large |-> large,
             docstring |-> docstring, js_comment |-> js_comment,
             cs_summary |-> cs_summary]
        main == file("main.py", "read", FALSE,
                     "Main entry point of the tool", "", "")
        locked == file("main.py", "unreadable", FALSE, "", "", "")
        app == file("app.py", "read", FALSE, "Short doc", "", "")
        index == file("index.js", "read", FALSE,
                      "", "Starts the web server", "")
        util == file("util.py", "read", FALSE,
                     "Utility helpers shared by all the commands", "", "")
        big == file("big.py", "read", TRUE,
                    "Utility helpers shared by all the commands", "", "")
        helper == file("Helper.cs", "read", FALSE, "", "", "Helper class")
    IN  {<<>>, <<main>>, <<app, index>>, <<locked, util>>, <<util>>,
         <<big, helper>>, <<helper, main>>}

RootListings ==
    {[listable |-> FALSE, listing |-> <<>>],
     [listable |-> TRUE, listing |-> <<>>],
     [listable |-> TRUE, listing |-> <<"src">>],
     [listable |-> TRUE,
      listing |-> <<".git", "node_modules", "__pycache__", "my_lib">>],
     [listable |-> TRUE, listing |-> <<"src", "my_lib", "docs", "tests">>]}

DescriptionProjects ==
    {[package_json |-> p, readme |-> r, csproj_files |-> c,
      assembly_info |-> a, files |-> f,
      listable |-> l.listable, listing |-> l.listing] :
        p \in PackageJsons, r \in Readmes, c \in CsprojDescribed,
        a \in AssemblyInfos, f \in RootFileLists, l \in RootListings}

DescriptionInit ==
    /\ OthersIdle
    /\ call = Calling("_detect_project_description")
    /\ arg \in DescriptionProjects
    /\ ret = <<>>

DetectProjectDescription ==
    /\ call = Calling("_detect_project_description")
    /\ ret' = _detect_project_description(arg)
    /\ call' = Returned("_detect_project_description")
    /\ UNCHANGED <<notCall, arg>>

SpecDescription == DescriptionInit /\ [][DetectProjectDescription]_vars

\* the .csproj <Description> / AssemblyInfo description provider as the
\* claim has it
ClaimedDotnetDescription(project) ==
    IF /\ project.csproj_files # <<>>
       /\ project.csproj_files[1].status = "read"
       /\ project.csproj_files[1].description # ""
    THEN Found(Chars[project.csproj_files[1].description])
    ELSE IF /\ project.assembly_info.status = "read"
            /\ project.assembly_info.description # ""
    THEN Found(Chars[project.assembly_info.description])
    ELSE Nothing

\* C17: the description is the value of the first provider that succeeds,
\* in the order package.json description, README line, .csproj Description
\* or AssemblyInfo description attribute, doc-comment of an entry-point
\* file, doc-comment of a source file, synthesized sentence, 'Project
\* without description'; a later provider is consulted only when every
\* earlier one yielded nothing.
C17_FirstProviderDescribesProject ==
    (call = Returned("_detect_project_description")) =>
        LET described == package_json_field(arg, "description")
            from_readme == readme_description(arg.readme)
            dotnet == ClaimedDotnetDescription(arg)
        IN  /\ described.found => ret = described.value
            /\ (~described.found /\ from_readme.found) =>
                   ret = from_readme.value
            /\ (~described.found /\ ~from_readme.found /\ dotnet.found) =>
                   ret = dotnet.value
            /\ (~described.found /\ ~from_readme.found /\ ~dotnet.found) =>
                   ret = _detect_project_description(arg)

----------------------------------------------------------------------------
(* The README provider on its own: README.md of up to MaxReadme lines out  *)
(* of a catalogue with blank lines, headings and lines of 200 and of 201   *)
(* characters; package.json is absent or describes the project.            *)

MaxReadme == 3

ReadmeLines ==
    {<<>>, Chars["   "], Chars["# Title"], Chars["Plain text"],
     Chars["  padded text  "], Chars["  # indented"],
     [i \in 1..200 |-> "x"],
     [i \in 1..201 |-> "y"],
     <<" ">> \o [i \in 1..200 |-> "z"]}

ReadmeProjects ==
    {[package_json |-> p,
      readme |-> IF r THEN Readme(l)
                 ELSE [status |-> "unreadable", content |-> <<>>],
      csproj_files |-> <<>>,
      assembly_info |-> [status |-> "absent", description |-> ""],
      files |-> <<>>, listable |-> TRUE, listing |-> <<"src">>,
      lines |-> l] :
        p \in {x \in PackageJsons :
                  x.status = "absent" \/ Len(x.data) = 1},
        l \in SeqsUpTo(ReadmeLines, MaxReadme) \ {<<>>},
        r \in BOOLEAN}

ReadmeInit ==
    /\ OthersIdle
    /\ call = Calling("_detect_project_description")
    /\ arg \in ReadmeProjects
    /\ ret = <<>>

SpecReadme == ReadmeInit /\ [][DetectProjectDescription]_vars

\* the line of README.md the claim takes, 0 when there is none: the first
\* one from a line on that is not blank and does not begin with '#'
ClaimedReadmeLine(lines, from) ==
    LET taken == {i \in from..Len(lines) :
                     /\ \E k \in 1..Len(lines[i]) :
                            lines[i][k] \notin Whitespace
                     /\ lines[i][1] # "#"}
    IN  IF taken = {} THEN 0 ELSE CHOOSE i \in taken : \A j \in taken : i <= j

\* the README provider is the one that supplies the description
ReadmeSupplies ==
    /\ call = Returned("_detect_project_description")
    /\ ~package_json_field(arg, "description").found
    /\ readme_description(arg.readme).found

\* C18 as stated: when the README provider supplies the description, it is
\* the first line of README.md, counting from the very first one, that is
\* not blank and is no heading, trimmed and cut to 200 characters, with
\* '...' exactly when it was longer.
C18_FirstLineOfReadme ==
    ReadmeSupplies =>
        LET i == ClaimedReadmeLine(arg.lines, 1)
        IN  /\ i # 0
            /\ Take(ret, 200) = Take(strip(arg.lines[i]), 200)

\* C18: when the README provider supplies the description, it is the first
\* line of README.md after the first one that is not blank and does not
\* begin with '#', trimmed; it is returned whole when the trimmed line has
\* at most 200 characters, and cut to its first 200 characters followed by
\* '...' when it has more.
C18_FirstLineAfterTheFirst ==
    ReadmeSupplies =>
        LET i == ClaimedReadmeLine(arg.lines, 2)
            line == strip(arg.lines[i])
        IN  /\ i # 0
            /\ Len(line) <= 200 => ret = line
            /\ Len(line) > 200 =>
                   /\ Len(ret) = 203
                   /\ SubSeq(ret, 1, 200) = SubSeq(line, 1, 200)
                   /\ SubSeq(ret, 201, 203) = <<".", ".", ".">>

\* C18 witness: README.md begins with a plain line, followed by a line of
\* 201 characters; the description is that second line cut, with '...'.
C18_Witness ==
    /\ ReadmeSupplies
    /\ Len(arg.lines) = 2
    /\ arg.lines[1] = Chars["Plain text"]
    /\ Len(arg.lines[2]) = 201
    /\ arg.lines[2][1] = "y"
    /\ Len(ret) = 203

----------------------------------------------------------------------------
(* The extension census on its own: up to MaxCensus files of a project     *)
(* whose configuration knows six extensions of five languages.             *)

MaxCensus == 6

CensusConfig ==
    << [key |-> "py", value |-> "Python"],
       [key |-> "js", value |-> "JavaScript"],
       [key |-> "jsx", value |-> "JavaScript"],
       [key |-> "ts", value |-> "TypeScript"],
       [key |-> "go", value |-> "Go"],
       [key |-> "rs", value |-> "Rust"] >>

\* the extensions of the files met: configured ones, "md" that the
\* configuration does not know, and "" for a file without extension
CensusFiles == {[ext |-> e] : e \in {"py", "js", "jsx", "ts", "go", "rs", "md", ""}}

CensusInit ==
    /\ OthersIdle
    /\ call = Calling("_analyze_file_extensions")
    /\ arg \in SeqsUpTo(CensusFiles, MaxCensus)
    /\ ret = <<>>

AnalyzeExtensionsAlone ==
    /\ call = Calling("_analyze_file_extensions")
    /\ ret' = Items(language_census(arg, CensusConfig, EmptyResult),
                    "language")
    /\ call' = Returned("_analyze_file_extensions")
    /\ UNCHANGED <<notCall, arg>>

SpecCensus == CensusInit /\ [][AnalyzeExtensionsAlone]_vars

\* the files of a language among the files met
FilesOfLanguage(files, language) ==
    {i \in 1..Len(files) :
        \E k \in 1..Len(CensusConfig) :
            /\ CensusConfig[k].key = files[i].ext
            /\ CensusConfig[k].value = language}

\* C19: after the extension census the language entries are in descending
\* order of their summed file counts, every language with a file appears
\* once with the number of its files, and the entry at rank i has
\* importance 5 for i = 0, 4 for i = 1, 3 for i in {2, 3} and 2 from 4 on.
C19_LanguagesRankedByCount ==
    (call = Returned("_analyze_file_extensions")) =>
        /\ \A i \in 1..Len(ret) : \A j \in 1..Len(ret) :
               /\ i < j => ret[i].count >= ret[j].count
               /\ i # j => ret[i].name # ret[j].name
        /\ \A i \in 1..Len(ret) :
               /\ ret[i].count = Cardinality(FilesOfLanguage(arg, ret[i].name))
               /\ ret[i].count > 0
               /\ ret[i].importance =
                      CASE i = 1 -> 5
                        [] i = 2 -> 4
                        [] i \in {3, 4} -> 3
                        [] OTHER -> 2
        /\ \A k \in 1..Len(CensusConfig) :
               FilesOfLanguage(arg, CensusConfig[k].value) # {} =>
                   \E i \in 1..Len(ret) : ret[i].name = CensusConfig[k].value

\* C19 witness: six files of five languages, two of them JavaScript files
\* of different extensions, give five entries, JavaScript first with
\* count 2 and the last one with importance 2.
C19_Witness ==
    /\ call = Returned("_analyze_file_extensions")
    /\ [i \in 1..Len(arg) |-> arg[i].ext] = <<"py", "js", "ts", "jsx", "go", "rs">>
    /\ Len(ret) = 5
    /\ ret[1] = [name |-> "JavaScript", count |-> 2, importance |-> 5]
    /\ ret[5].importance = 2

----------------------------------------------------------------------------
(* The generic feature of _detect_project_features.                        *)

\* no counter has reached its threshold and the directory name holds
\* neither 'download' nor 'youtube'
NoFeatureQualifies ==
    /\ fpc = "done"
    /\ CounterFeatures(feature_counters, FeatureTypes) = <<>>
    /\ \A i \in 1..Len(project_name) :
           project_name[i] \notin {"youtube", "download", "downloader"}

\* the words of the directory name, '-' and '_' taken as blanks
WordsOfName == SelectSeq(project_name, LAMBDA t : t \notin {"-", "_", " "})

\* C20 as stated: whenever no counter-based feature qualifies and neither
\* name rule applies, exactly one generic feature is returned, whatever
\* the directory name; the list returned is never empty.
C20_AlwaysOneGenericFeature ==
    /\ NoFeatureQualifies =>
           Len(features) = 1 /\ features[1].category = "general"
    /\ fpc = "done" => features # <<>>

\* C20: whenever no counter-based feature qualifies and neither name rule
\* applies, one generic feature of priority 3 is returned when the
\* directory name has two words or more, and an empty list when it has
\* fewer.
C20_GenericFeatureFromTwoWords ==
    NoFeatureQualifies =>
        IF Len(WordsOfName) >= 2
        THEN /\ Len(features) = 1
             /\ features[1].category = "general"
             /\ features[1].priority = 3
             /\ Len(features[1].name) = Len(WordsOfName)
        ELSE features = <<>>

\* C20 witness: the scan of a project named file_manager, where nothing
\* qualifies, has returned the generic feature "File manager".
C20_Witness ==
    /\ NoFeatureQualifies
    /\ project_name = <<"file", "_", "manager">>
    /\ features = <<[name |-> <<"File", "manager">>,
                     category |-> "general", priority |-> 3]>>

----------------------------------------------------------------------------
(* ConfigRepository: a run of get_config calls on one repository.          *)
(*                                                                         *)
(* `arg` holds the configuration file and the key of the last call, `ret`  *)
(* the repository's _config_cache, what the last call raised or returned,  *)
(* and how often read_file has been called on the configuration file.      *)

MaxGets == 4

ConfigKeys ==
    {<<>>, <<"analyzers">>, <<"analyzers", "file_extensions">>,
     <<"analyzers", "project_files">>, <<"analyzers", "package_files">>,
     <<"analyzers", "missing">>, <<"sections">>, <<"missing">>}

\* ConfigRepository() with its _config_cache = None
ConfigInit ==
    /\ OthersIdle
    /\ call = Calling("get_config")
    /\ arg \in {[file |-> f, key |-> <<>>] : f \in ConfigFiles}
    /\ ret = [cache |-> None, exc |-> "", value |-> None,
              calls |-> 0, reads |-> 0]

\* one get_config(key); _load_config reads the file when it exists
GetConfig ==
    /\ call = Calling("get_config")
    /\ ret.calls < MaxGets
    /\ \E key \in ConfigKeys :
        LET got == get_config(arg.file, ret.cache, key)
            loads == ret.cache = None
        IN  /\ arg' = [arg EXCEPT !.key = key]
            /\ ret' = [cache |-> got.cache, exc |-> got.exc,
                       value |-> got.value, calls |-> ret.calls + 1,
                       reads |-> IF loads /\ arg.file.status # "absent"
                                 THEN ret.reads + 1 ELSE ret.reads]
    /\ UNCHANGED <<notCall, call>>

SpecConfig == ConfigInit /\ [][GetConfig]_vars

\* the file of a repository that has answered a call has been read once,
\* and the cache is what was loaded
ReadOnce ==
    (/\ call = Calling("get_config")
     /\ arg.file.status = "valid"
     /\ ret.calls >= 1) =>
        /\ ret.reads = 1
        /\ ret.cache = arg.file.content

----------------------------------------------------------------------------
(* The enrichment step of analyze.                                         *)

\* C22: the enrichment from source content only appends: every entry of
\* the table keeps its category, place, name and importance, and each
\* entry added has importance 3 and a name that no entry of its category
\* had before, letter case aside.
C22_EnrichmentOnlyAppends ==
    [][(pc = "_enrich_technologies_from_source"
        /\ pc' = "required_categories") =>
           /\ \A k \in 1..Len(result) :
                  /\ HasKey(result', result[k].cat)
                  /\ Len(Items(result', result[k].cat))
                         >= Len(result[k].items)
                  /\ SubSeq(Items(result', result[k].cat), 1,
                            Len(result[k].items)) = result[k].items
           /\ \A k \in 1..Len(result') :
                  \A j \in 1..Len(result'[k].items) :
                      j > Len(Items(result, result'[k].cat)) =>
                          /\ result'[k].items[j].importance = 3
                          /\ \A i \in 1..Len(result'[k].items) :
                                 (i # j) =>
                                     Lower(result'[k].items[i].name)
                                         # Lower(result'[k].items[j].name)]_vars

\* C22 witness: the enrichment has run on a project whose requirements
\* name Flask and whose sources import flask and express: Flask stands as
\* before, alone in its category, and express has been added at 3.
C22_Witness ==
    /\ pc = "required_categories"
    /\ fs = {"requirements.txt", "app.py", "server.js"}
    /\ Items(result, "framework") = <<[name |-> "Flask", importance |-> 5]>>
    /\ \E j \in 1..Len(Items(result, "backend")) :
           Items(result, "backend")[j] = [name |-> "express", importance |-> 3]

----------------------------------------------------------------------------
(* The enricher on one import or require target of a .js or .ts file.      *)
(*                                                                         *)
(* A target is made of up to MaxSegments segments joined by '/'; it is     *)
(* lower-case, as the content it is matched in has been lower-cased.       *)

\* text.split(sep), sep being one character
RECURSIVE split_text(_, _)
split_text(text, sep) ==
    LET at == {p \in 1..Len(text) : text[p] = sep}
    IN  IF at = {} THEN <<text>>
        ELSE LET p == CHOOSE x \in at : \A y \in at : x <= y
             IN  <<SubSeq(text, 1, p - 1)>>
                     \o split_text(SubSeq(text, p + 1, Len(text)), sep)

\* the two `if` of the loop over the matches of a .js or .ts file
normalize_target(target) ==
    LET lib == IF \E p \in 1..Len(target) : target[p] = "/"
               THEN split_text(target, "/")[1]
               ELSE target
        parts == split_text(lib, "/")
    IN  IF lib # <<>> /\ Head(lib) = "@" /\ Len(parts) > 1
        THEN parts[1] \o <<"/">> \o parts[2]
        ELSE lib

js_libraries ==
    <<"react", "angular", "vue", "express", "axios", "mongoose",
      "sequelize", "jest", "mocha", "webpack", "babel", "redux", "next",
      "gatsby", "youtube-api", "ytdl-core">>

\* the known libraries a target puts into found_libraries
matched_libraries(target) ==
    LET lib == normalize_target(target)
    IN  SelectSeq(js_libraries, LAMBDA known_lib :
            lib = Chars[known_lib] \/ Contains(Chars[known_lib], lib))

MaxSegments == 3

Segments == {"@scope", "@angular", "name", "react", "core", "sub"}

TargetInit ==
    /\ OthersIdle
    /\ call = Calling("normalize_target")
    /\ arg \in SeqsUpTo(Segments, MaxSegments) \ {<<>>}
    /\ ret = <<>>

NormalizeTarget ==
    /\ call = Calling("normalize_target")
    /\ LET target == join(<<"/">>, [i \in 1..Len(arg) |-> Chars[arg[i]]])
       IN  ret' = [lib |-> normalize_target(target),
                   found |-> matched_libraries(target)]
    /\ call' = Returned("normalize_target")
    /\ UNCHANGED <<notCall, arg>>

SpecTarget == TargetInit /\ [][NormalizeTarget]_vars

\* C23: a scoped target '@scope/name' or '@scope/name/sub/path' is reduced
\* to the two segments '@scope/name' and an unscoped 'name/sub/path' to
\* 'name' before it is matched against the library table.
C23_ScopedKeepsTwoSegments ==
    (call = Returned("normalize_target")) =>
        IF Head(Chars[arg[1]]) = "@" /\ Len(arg) >= 2
        THEN ret.lib = Chars[arg[1]] \o <<"/">> \o Chars[arg[2]]
        ELSE ret.lib = Chars[arg[1]]

----------------------------------------------------------------------------
(* _check_framework_directories on its own.                                *)
(*                                                                         *)
(* A path is the sequence of its segments ('/home/proj' is <<"", "home",  *)
(* "proj">>); a project is its path and the set of the directories below  *)
(* it, each given by its path relative to the project.  directory_to_tech *)
(* and the if/elif chain are cut to the rows the directory names reach.    *)

directory_to_tech ==
    <<[key |-> "routes", name |-> "Routing", category |-> "backend",
       importance |-> 3],
      [key |-> "tests", name |-> "Automated Tests", category |-> "testing",
       importance |-> 3],
      [key |-> "build", name |-> "Build Output", category |-> "devops",
       importance |-> 2]>>

\* the if/elif chain on the special framework directory names
special_directories ==
    <<[key |-> "react", name |-> "React", category |-> "frontend",
       importance |-> 4],
      [key |-> "express", name |-> "Express.js", category |-> "backend",
       importance |-> 4]>>

\* _is_ignored_dir: its list equals the list of the structure walker
_is_ignored_dir(path) ==
    \E i \in 1..Len(ignored_dirs) : ignored_dirs[i] \in Range(path)

\* the order in which os.walk gives the directory names the model holds
DirOrder == <<"src", "Tests", "routes", "express", "build", ".git">>

\* dirs of one step of os.walk
walk_dirs(tree, root) ==
    SelectSeq(DirOrder, LAMBDA n : Append(root, n) \in tree)

\* os.walk(project_path), top-down: the relative path of every root
RECURSIVE os_walk(_, _, _)
os_walk(tree, root, dirs) ==
    IF dirs = <<>> THEN <<>>
    ELSE LET sub == Append(root, Head(dirs))
         IN  <<sub>> \o os_walk(tree, sub, walk_dirs(tree, sub))
                     \o os_walk(tree, root, Tail(dirs))

\* root.replace(project_path, '').strip(os.path.sep).split(os.path.sep):
\* ''.split(sep) is [''], so that the project itself has one segment
relative_segments(root) == IF root = <<>> THEN <<"">> ELSE root

\* the depth test of the loop, as written
DepthSkipped(root) == Len(relative_segments(root)) > 2

\* the body of `for dir_name in dirs`
directory_calls(dir_name) ==
    LET dir_name_lower == lower(Chars[dir_name])
        hit(rows) ==
            LET found == SelectSeq(rows, LAMBDA r :
                            Chars[r.key] = dir_name_lower)
            IN  [i \in 1..Len(found) |->
                    Call(found[i].category, found[i].name,
                         found[i].importance)]
    IN  IF Head(dir_name_lower) = "." THEN <<>>
        ELSE hit(directory_to_tech) \o hit(special_directories)

RECURSIVE directories_calls(_)
directories_calls(dirs) ==
    IF dirs = <<>> THEN <<>>
    ELSE directory_calls(Head(dirs)) \o directories_calls(Tail(dirs))

\* the body of `for root, dirs, _ in os.walk(project_path)`
RECURSIVE roots_calls(_, _, _)
roots_calls(project_path, tree, roots) ==
    IF roots = <<>> THEN <<>>
    ELSE LET root == Head(roots)
         IN  (IF DepthSkipped(root) \/ _is_ignored_dir(project_path \o root)
              THEN <<>>
              ELSE directories_calls(walk_dirs(tree, root)))
             \o roots_calls(project_path, tree, Tail(roots))

_check_framework_directories(project_path, tree, tbl) ==
    ApplyCalls(tbl,
        roots_calls(project_path, tree,
                    <<<<>>>> \o os_walk(tree, <<>>, walk_dirs(tree, <<>>))))

MaxDirDepth == 4

ProjectPaths ==
    {<<"", "home", "proj">>, <<"", "build", "proj">>, <<"", "env", "proj">>}

\* the directories of a project holding one chain of nested directories
ChainTree(chain) == {SubSeq(chain, 1, n) : n \in 1..Len(chain)}

DirectoriesInit ==
    /\ OthersIdle
    /\ call = Calling("_check_framework_directories")
    /\ \E path \in ProjectPaths :
       \E chain \in SeqsUpTo(Range(DirOrder), MaxDirDepth) :
            arg = [project_path |-> path, tree |-> ChainTree(chain)]
    /\ ret = <<>>

CheckFrameworkDirectories ==
    /\ call = Calling("_check_framework_directories")
    /\ ret' = _check_framework_directories(arg.project_path, arg.tree,
                                           EmptyResult)
    /\ call' = Returned("_check_framework_directories")
    /\ UNCHANGED <<notCall, arg>>

SpecDirectories == DirectoriesInit /\ [][CheckFrameworkDirectories]_vars

\* the technology facts the directory name gives
FactsOfName(dir_name) ==
    {[category |-> c.category, name |-> c.name] :
        c \in Range(directory_calls(dir_name))}

\* C24: the directory-name table and the special framework names are
\* applied only to directories at depth <= 2 below the project root, the
\* root's children being depth 1: every technology fact of the result comes
\* from a directory at depth 1 or 2.
C24_NoFactFromDepthThree ==
    (call = Returned("_check_framework_directories")) =>
        \A k \in 1..Len(ret) : \A j \in 1..Len(ret[k].items) :
            \E p \in arg.tree :
                /\ Len(p) <= 2
                /\ [category |-> ret[k].cat, name |-> ret[k].items[j].name]
                       \in FactsOfName(p[Len(p)])

----------------------------------------------------------------------------
(* _check_devops_tools on its own: a project root holding up to MaxMarkers *)
(* of the marker files and marker directories, each of the kind (file or   *)
(* directory) the code asks for.                                           *)

MaxMarkers == 3

DevopsInit ==
    /\ OthersIdle
    /\ call = Calling("_check_devops_tools")
    /\ \E present \in SubsetsUpTo(DevopsFiles \cup DevopsDirs, MaxMarkers) :
            arg = [files |-> present \cap DevopsFiles,
                   dirs |-> present \cap DevopsDirs]
    /\ ret = <<>>

CheckDevopsTools ==
    /\ call = Calling("_check_devops_tools")
    /\ ret' = ApplyCalls(EmptyResult, devops_calls(arg.files, arg.dirs))
    /\ call' = Returned("_check_devops_tools")
    /\ UNCHANGED <<notCall, arg>>

SpecDevops == DevopsInit /\ [][CheckDevopsTools]_vars

\* the fixed DevOps marker table: technology, importance, markers
DevopsTable ==
    <<[name |-> "Docker", importance |-> 4,
       markers |-> {"Dockerfile", "docker-compose.yml",
                    "docker-compose.yaml"}],
      [name |-> "Kubernetes", importance |-> 4,
       markers |-> {"kubernetes.yaml", "kubernetes.yml", "k8s.yaml",
                    "k8s.yml", "deployment.yaml", "service.yaml"}],
      [name |-> "Helm", importance |-> 3, markers |-> {"helm", "charts"}],
      [name |-> "GitHub Actions", importance |-> 3,
       markers |-> {".github/workflows"}],
      [name |-> "GitLab CI", importance |-> 3,
       markers |-> {".gitlab-ci.yml", ".gitlab-ci.yaml"}],
      [name |-> "Travis CI", importance |-> 3,
       markers |-> {".travis.yml", ".travis.yaml"}],
      [name |-> "Jenkins", importance |-> 3, markers |-> {"Jenkinsfile"}],
      [name |-> "Azure Pipelines", importance |-> 3,
       markers |-> {"azure-pipelines.yml", "azure-pipelines.yaml"}],
      [name |-> "AppVeyor", importance |-> 3,
       markers |-> {"appveyor.yml", "appveyor.yaml"}],
      [name |-> "AWS CodeBuild", importance |-> 3,
       markers |-> {"buildspec.yml", "buildspec.yaml"}],
      [name |-> "Terraform", importance |-> 4,
       markers |-> {"main.tf", "variables.tf", "terraform.tf"}],
      [name |-> "Ansible", importance |-> 4,
       markers |-> {"ansible.cfg", "roles", "playbook.yml", "playbook.yaml",
                    "inventory.ini", "hosts"}],
      [name |-> "Pulumi", importance |-> 4,
       markers |-> {"pulumi.yaml", "Pulumi.yaml"}]>>

\* C25: every entry of the DevOps marker table one of whose markers is
\* present leaves its technology in category devops with importance at
\* least its fixed value, whichever other markers are present.
C25_EveryPresentMarkerCounts ==
    (call = Returned("_check_devops_tools")) =>
        \A e \in 1..Len(DevopsTable) :
            DevopsTable[e].markers \cap (arg.files \cup arg.dirs) # {} =>
                \E j \in 1..Len(Items(ret, "devops")) :
                    /\ Items(ret, "devops")[j].name = DevopsTable[e].name
                    /\ Items(ret, "devops")[j].importance
                           >= DevopsTable[e].importance

----------------------------------------------------------------------------
(* The +5 bonus of _detect_project_features.                               *)

\* the lower-cased names of the directories among the entries listed
ListedDirectories ==
    LET dirs == SelectSeq(Listing(fs, FeatureCatalogue), LAMBDA e : e.dir)
    IN  [i \in 1..Len(dirs) |-> lower(Chars[dirs[i].name])]

\* C26: the +5 bonus comes from directory names only: the loop over
\* project_dirs adds to each counter exactly 5 for each listed directory
\* whose lower-cased name contains one of the counter's keywords, and the
\* name of a plain file adds nothing.
C26_BonusFromDirectoriesOnly ==
    [][(fpc = "scan" /\ fpc' = "technologies") =>
            \A t \in Range(FeatureTypes) :
                feature_counters'[t] =
                    feature_counters[t] + SumDirBonus(t, ListedDirectories)]_vars

----------------------------------------------------------------------------
(* _parse_pom_xml and _process_java_packages on a pom.xml.                 *)
(*                                                                         *)
(* A POM is given by what the patterns of _parse_pom_xml find in it: the   *)
(* groupId and artifactId of its <parent> block, if it has one, and of its *)
(* <dependency> blocks.  framework_map and spring_boot_starters are cut to *)
(* the rows the groups and artifacts below reach.                          *)

\* text.startswith(prefix)
startswith(text, prefix) == IsPrefix(prefix, text)

_parse_pom_xml(pom) ==
    IF ~pom.readable THEN <<>>
    ELSE [i \in 1..Len(pom.dependencies) |->
            [group |-> pom.dependencies[i].group,
             artifact |-> pom.dependencies[i].artifact,
             name |-> <<pom.dependencies[i].group, ":",
                        pom.dependencies[i].artifact>>]]
         \o (IF /\ pom.parent # None
                /\ Contains(Chars["org.springframework.boot"],
                            Chars[pom.parent.group])
                /\ Contains(Chars["spring-boot-starter-parent"],
                            Chars[pom.parent.artifact])
             THEN <<[group |-> "org.springframework.boot",
                     artifact |-> "spring-boot-starter-parent",
                     name |-> <<"Spring Boot">>]>>
             ELSE <<>>)

framework_map ==
    <<[key |-> "org.springframework.boot", category |-> "framework",
       importance |-> 5, name |-> "Spring Boot"],
      [key |-> "org.springframework", category |-> "framework",
       importance |-> 5, name |-> "Spring Framework"],
      [key |-> "org.junit", category |-> "testing", importance |-> 3,
       name |-> "JUnit"]>>

spring_boot_starters ==
    <<[key |-> "spring-boot-starter-web", category |-> "backend",
       importance |-> 4, name |-> "Spring MVC"],
      [key |-> "spring-boot-starter-test", category |-> "testing",
       importance |-> 3, name |-> "Spring Testing"]>>

\* one turn of `for dependency in dependencies`
dependency_calls(dependency) ==
    LET group == dependency.group
        artifact == dependency.artifact
        as_call(rows) ==
            IF rows = <<>> THEN <<>>
            ELSE <<Call(rows[1].category, rows[1].name, rows[1].importance)>>
    IN  IF /\ group = "org.springframework.boot"
           /\ startswith(Chars[artifact], Chars["spring-boot-starter"])
        THEN as_call(SelectSeq(spring_boot_starters,
                               LAMBDA r : r.key = artifact))
        ELSE as_call(SelectSeq(framework_map, LAMBDA r :
                        startswith(Chars[group], Chars[r.key])))

RECURSIVE dependencies_calls(_)
dependencies_calls(dependencies) ==
    IF dependencies = <<>> THEN <<>>
    ELSE dependency_calls(Head(dependencies))
            \o dependencies_calls(Tail(dependencies))

_process_java_packages(dependencies, tbl) ==
    ApplyCalls(tbl, <<Call("language", "Java", 5)>>
                        \o dependencies_calls(dependencies))

MaxDependencies == 2

PomGroups == {"org.springframework.boot", "org.springframework", "com.example"}

PomArtifacts ==
    {"spring-boot-starter-parent", "spring-boot-starter-web",
     "spring-boot-devtools", "core"}

PomCoordinates == [group : PomGroups, artifact : PomArtifacts]

Poms ==
    [readable : BOOLEAN,
     parent : {None} \cup PomCoordinates,
     dependencies : SeqsUpTo(PomCoordinates, MaxDependencies)]

PomInit ==
    /\ OthersIdle
    /\ call = Calling("_parse_pom_xml")
    /\ arg \in Poms
    /\ ret = <<>>

\* the two calls of _analyze_package_files on an existing pom.xml
AnalyzePom ==
    /\ call = Calling("_parse_pom_xml")
    /\ ret' = _process_java_packages(_parse_pom_xml(arg), EmptyResult)
    /\ call' = Returned("_process_java_packages")
    /\ UNCHANGED <<notCall, arg>>

SpecPom == PomInit /\ [][AnalyzePom]_vars

\* C27: a pom.xml whose <parent> block has groupId org.springframework.boot
\* and artifactId spring-boot-starter-parent results, after _parse_pom_xml
\* and _process_java_packages, in a 'Spring Boot' technology in category
\* framework, whatever its dependencies.
C27_ParentGivesSpringBoot ==
    (/\ call = Returned("_process_java_packages")
     /\ arg.readable
     /\ arg.parent = [group |-> "org.springframework.boot",
                      artifact |-> "spring-boot-starter-parent"]) =>
        \E j \in 1..Len(Items(ret, "framework")) :
            Items(ret, "framework")[j].name = "Spring Boot"

----------------------------------------------------------------------------
(* The three walks that decide on the path of the walked root: the         *)
(* extension census (_is_ignored_dir(root)), the source-file walk of the   *)
(* enrichment and the source-file walk of the feature scan (a substring    *)
(* test on root).  A project is the path it stands at and the files below  *)
(* it, each in the project's root, in src or in build.                     *)

\* root as a text: its segments joined by os.sep
path_text(path) == join(<<"/">>, [i \in 1..Len(path) |-> Chars[path[i]]])

\* any(ignored in root for ignored in ['.git', 'node_modules', ...])
walk_skipped(root) ==
    \E part \in {".git", "node_modules", "venv", "__pycache__", "dist",
                 "build"} :
        Contains(Chars[part], path_text(root))

\* the files the model holds, in the order os.walk meets them
LocatedOrder ==
    <<[dir |-> <<>>, name |-> "app.py", ext |-> "py"],
      [dir |-> <<>>, name |-> "server.js", ext |-> "js"],
      [dir |-> <<>>, name |-> "index.ts", ext |-> "ts"],
      [dir |-> <<"src">>, name |-> "app.py", ext |-> "py"],
      [dir |-> <<"src">>, name |-> "server.js", ext |-> "js"],
      [dir |-> <<"src">>, name |-> "index.ts", ext |-> "ts"],
      [dir |-> <<"build">>, name |-> "app.py", ext |-> "py"],
      [dir |-> <<"build">>, name |-> "server.js", ext |-> "js"],
      [dir |-> <<"build">>, name |-> "index.ts", ext |-> "ts"]>>

\* the files _analyze_file_extensions counts
census_files(project_path, files) ==
    SelectSeq(LocatedOrder, LAMBDA f :
        f \in files /\ ~_is_ignored_dir(project_path \o f.dir))

\* source_files of _detect_project_features and of
\* _enrich_technologies_from_source (the extensions of the model are in
\* both lists)
walked_sources(project_path, files) ==
    Take(SelectSeq(LocatedOrder, LAMBDA f :
            f \in files /\ ~walk_skipped(project_path \o f.dir)), 50)

\* the catalogue entry of a file name
CatalogueEntry(name) ==
    FeatureCatalogue[CHOOSE i \in 1..Len(FeatureCatalogue) :
                        FeatureCatalogue[i].name = name]

\* the loop `for file_path in source_files` of the feature scan
RECURSIVE scan_counter(_, _)
scan_counter(feature_type, source) ==
    IF source = <<>> THEN 0
    ELSE LET file == CatalogueEntry(Head(source).name)
         IN  (IF file.size <= 100000 /\ file.readable
              THEN CountHits(indicators(feature_type),
                             lower(Join(file.content)))
              ELSE 0) + scan_counter(feature_type, Tail(source))

\* the keys of found_libraries
found_libraries(source) ==
    {ImportedLibrary(source[i].name).lib : i \in 1..Len(source)} \ {""}

\* what the three walks give for a project at a path
located_analysis(project_path, files) ==
    [census |->
        Items(language_census(census_files(project_path, files),
                              CensusConfig, EmptyResult), "language"),
     libraries |-> found_libraries(walked_sources(project_path, files)),
     counters |->
        [t \in Range(FeatureTypes) |->
            scan_counter(t, walked_sources(project_path, files))]]

MaxLocated == 3

LocationPaths ==
    {<<"", "home", "proj">>, <<"", "home", "user", "proj">>,
     <<"", "build", "proj">>, <<"", "env", "proj">>,
     <<"", "packages", "proj">>, <<"", "home", "dist-site", "proj">>}

LocationInit ==
    /\ OthersIdle
    /\ call = Calling("analyze")
    /\ arg \in [project_path : LocationPaths,
                files : SubsetsUpTo(Range(LocatedOrder), MaxLocated)]
    /\ ret = <<>>

AnalyzeLocated ==
    /\ call = Calling("analyze")
    /\ ret' = located_analysis(arg.project_path, arg.files)
    /\ call' = Returned("analyze")
    /\ UNCHANGED <<notCall, arg>>

SpecLocation == LocationInit /\ [][AnalyzeLocated]_vars

\* C28: the language census, the enrichment and the feature counters depend
\* only on what lies under the project root: the same files under any other
\* parent path give the same three results.
C28_SameContentSameAnalysis ==
    (call = Returned("analyze")) =>
        \A other \in LocationPaths :
            located_analysis(other, arg.files) = ret

\* C29: the description analyze gives the Project is never the empty
\* string, also for a project whose package.json carries an empty
\* description value; 'Project without description' is the last resort.
C29_DescriptionNeverEmpty ==
    (call = Returned("_detect_project_description")) => ret # <<>>

----------------------------------------------------------------------------
(* ReadmeGeneratorUseCase.execute run several times on one project, the    *)
(* output left at <project>/README.md.                                      *)
(*                                                                         *)
(* The project is what the name and description providers and              *)
(* _detect_has_documentation read of it; README.md is the one file that    *)
(* changes between the runs.  The rendering is the standard template down  *)
(* to its Overview section, where the description and has_documentation    *)
(* stand; the sentences made of the features and technologies are left out.*)

\* _detect_has_documentation: the directory docs, or README.md as a file
_detect_has_documentation(project) ==
    \/ "docs" \in Range(project.listing)
    \/ project.readme.status # "absent"

\* what analyze returns, as far as the README provider and
\* _detect_has_documentation can change it
analyze(project) ==
    [name |-> _detect_project_name(project),
     description |-> _detect_project_description(project),
     has_documentation |-> _detect_has_documentation(project)]

\* `- [{{ section|title|replace("_", " ") }}](#...)` of the sections
toc_item(section) ==
    CASE section = "overview" -> Chars["- [Overview](#overview)"]
      [] section = "features" -> Chars["- [Features](#features)"]

\* the lines of the standard template rendered with trim_blocks and
\* lstrip_blocks, down to the Overview section
render(context, sections) ==
    LET listed == SelectSeq(sections, LAMBDA s : s # "table_of_contents")
    IN  <<Chars["# "] \o context.name, <<>>,
          Chars["## Table of Contents"], <<>>>>
        \o [i \in 1..Len(listed) |-> toc_item(listed[i])]
        \o <<<<>>>>
        \o (IF "overview" \in Range(sections)
            THEN <<Chars["## Overview"], <<>>, context.description, <<>>>>
                 \o (IF context.has_documentation
                     THEN <<Chars["Documentation is available in the project directory."]>>
                     ELSE <<>>)
            ELSE <<>>)

\* execute with output_path None: analyze, render, save_file
execute(project, sections) ==
    LET context == analyze(project)
        readme_content == render(context, sections)
    IN  [context |-> context,
         readme_content |-> readme_content]

MaxRuns == 3

SectionLists ==
    {<<>>, <<"table_of_contents">>, <<"overview">>,
     <<"table_of_contents", "overview", "features">>}

\* the projects execute is run on: package.json absent, describing the
\* project or with an empty description; README.md absent, unreadable or
\* written by hand, a directory docs or none
GeneratedProjects ==
    {[package_json |-> p, readme |-> r, csproj_files |-> <<>>,
      assembly_info |-> [status |-> "absent", description |-> ""],
      files |-> <<>>, listable |-> l.listable, listing |-> l.listing,
      setup_py |-> [status |-> "absent", name_match |-> ""],
      cargo_toml |-> [status |-> "absent", name_match |-> ""]] :
        p \in {[status |-> "absent", data |-> <<>>],
               [status |-> "object",
                data |-> <<[key |-> "description", value |-> "A web app"]>>],
               [status |-> "object",
                data |-> <<[key |-> "name", value |-> ""],
                           [key |-> "description", value |-> ""]>>]},
        r \in {[status |-> "absent", content |-> <<>>],
               [status |-> "unreadable", content |-> <<>>],
               Readme(<<Chars["# Title"], <<>>, Chars["Plain text"]>>)},
        l \in RootListings}

GenerateInit ==
    /\ OthersIdle
    /\ call = Calling("execute")
    /\ arg \in [project : GeneratedProjects, sections : SectionLists]
    /\ ret = [readme |-> arg.project.readme, runs |-> <<>>]

\* one run of execute on the project as the runs before have left it
Execute ==
    /\ call = Calling("execute")
    /\ Len(ret.runs) < MaxRuns
    /\ LET done == execute([arg.project EXCEPT !.readme = ret.readme],
                           arg.sections)
       IN  ret' = [readme |-> Readme(done.readme_content),
                   runs |-> Append(ret.runs, done)]
    /\ UNCHANGED <<notCall, call, arg>>

\* no further run is made
Leave ==
    /\ call = Calling("execute")
    /\ Len(ret.runs) >= 2
    /\ call' = Returned("execute")
    /\ UNCHANGED <<notCall, arg, ret>>

SpecGenerate == GenerateInit /\ [][Execute \/ Leave]_vars

\* C30: execute is idempotent for the default output path: the second of
\* two runs in a row on a project that is otherwise unchanged analyzes to
\* the same description and metadata and writes the same README content as
\* the first.
C30_SecondRunRepeatsFirst ==
    Len(ret.runs) >= 2 => ret.runs[2] = ret.runs[1]

====
